---- MODULE Spec2Model ----
(***************************************************************************)
(* Deep Focus: the observation store (execution/db_manager.py), the chunk  *)
(* scheduler (execution/scheduler.py) and the scan engine                  *)
(* (execution/scanner.py) as state machines.                               *)
(*                                                                         *)
(* Time is counted in whole hours.  SQL NULL / Python None is the value    *)
(* NULL; a dictionary key that is missing is the value ABSENT.  Column     *)
(* values of the services table are written as text ("0", "100", "[]").    *)
(***************************************************************************)
EXTENDS Integers, Sequences, FiniteSets, TLC

VARIABLES
    hosts,          \* table hosts: set of rows [ip, first_seen, last_seen]
    services,       \* table services: set of rows
    history,        \* table history: sequence of rows, in insertion order
    nextServiceId,  \* AUTOINCREMENT counter of services.id
    saveStatus,     \* outcome of the last store call: "none", "ok", "IntegrityError", "OperationalError", "pruned"
    obsLog,         \* per service key, the observations committed so far, in order
    lastBatch,      \* the argument of the last save_observation_batch call
    passed,         \* observations passed to save_observation_batch so far
    now,            \* wall clock, in hours
    chunks,         \* table scan_state: sequence of rows, row i has id i
    lastMaintenance,\* per engine process, scheduler.last_maintenance_ts
    pc,             \* per engine, where its main loop stands
    cand,           \* per engine, the row db_manager.get_next_chunk returned
    cur,            \* per engine, the chunk next_chunk handed to it (0: none)
    ret,            \* per engine, what its last next_chunk call returned (0: None)
    op,             \* the last scheduler operation and its arguments
    scanpc,         \* where scan_chunk stands ("none": not running)
    queue,          \* scan_chunk: the asyncio.Queue of (ip, port) items and Nones
    unfinished,     \* scan_chunk: the queue's count of items not yet task_done
    wpc,            \* per worker coroutine, where it stands
    witem,          \* per worker, the item it took from the queue
    buffer,         \* scan_chunk: result_buffer
    produced,       \* observations appended to result_buffer in this scan
    flushed,        \* observations of this scan committed to the store
    completed,      \* complete_chunk calls made for the chunk under scan
    scanId,         \* the chunk the last scan_chunk call was given (0: none)
    chunksProcessed,\* main's chunks_processed_count, followed under SpecLoop
    loopMode,       \* main's args.loop: TRUE with --loop, FALSE in one-shot mode
    observation,    \* the argument of the last fingerprint.analyze call
    analysis,       \* what the last fingerprint.analyze call returned
    lastGroups,     \* per rule of fingerprint.RULES, its attribute last_groups
    probeCall,      \* the last probe call: its port and what the network did
    probeResult,    \* what the last probe call returned
    scanInput,      \* scan_chunk's arguments start_ip, end_ip and ports
    taken,          \* per (ip, port) item, how many times a worker got it from the queue
    probed,         \* per (ip, port) item, how many probe.run calls were made for it
    handouts        \* per chunk, the next_chunk calls that returned it since it was
                    \* enqueued or reset for rescan (followed under SpecRetry)

storeVars == <<hosts, services, history, nextServiceId, saveStatus, obsLog, lastBatch, passed>>

schedVars == <<chunks, lastMaintenance, pc, cand, cur, ret, op>>

scanVars == <<scanpc, queue, unfinished, wpc, witem, buffer, produced, flushed, completed, scanId>>

mainVars == <<chunksProcessed, loopMode>>

fpVars == <<observation, analysis, lastGroups>>

probeVars == <<probeCall, probeResult>>

libVars == <<observation, analysis, lastGroups, probeCall, probeResult>>

taskVars == <<scanInput, taken, probed, handouts>>

vars == <<hosts, services, history, nextServiceId, saveStatus, obsLog, lastBatch, passed, now,
          chunks, lastMaintenance, pc, cand, cur, ret, op,
          scanpc, queue, unfinished, wpc, witem, buffer, produced, flushed, completed, scanId,
          chunksProcessed, loopMode, observation, analysis, lastGroups,
          probeCall, probeResult, scanInput, taken, probed,
          handouts>>

NULL == "<null>"

ABSENT == "<absent>"

(***************************************************************************)
(* Bounds of the model.                                                    *)
(***************************************************************************)
\* observations passed to the store in one behaviour
MaxObs == 3

\* observations in one batch
MaxBatch == 2

\* days the clock of the store specification advances
MaxDays == 2

\* rows of scan_state
MaxChunks == 2

\* the clock (hours since the epoch) when the engine process starts
StartTime == 1000

\* worker coroutines of one scan_chunk call (its argument rate)
NumWorkers == 2

\* length of result_buffer at which a worker flushes it (worker's batch_size)
BatchSize == 2

(***************************************************************************)
(* Observations (probes.py Observation.to_dict, plus 'analysis').          *)
(***************************************************************************)
Keys == { <<"10.0.0.1", 22, "tcp">>, <<"10.0.0.1", 80, "tcp">> }

Statuses == {"open", "closed"}

Banners == {NULL, "", "SSH-2.0-A", "SSH-2.0-B"}

\* analysis dictionaries: no key at all, every key null, analyze()'s
\* no-match result, and a matched rule with a version
AnAbsent ==
    [service_type |-> ABSENT, vendor |-> ABSENT, product |-> ABSENT,
     version |-> ABSENT, confidence |-> ABSENT, tags |-> ABSENT]

AnNulls ==
    [service_type |-> NULL, vendor |-> NULL, product |-> NULL,
     version |-> NULL, confidence |-> NULL, tags |-> NULL]

AnUnknown ==
    [service_type |-> "unknown", vendor |-> "unknown", product |-> "unknown",
     version |-> NULL, confidence |-> "0", tags |-> "[]"]

AnApache ==
    [service_type |-> "http", vendor |-> "Apache", product |-> "HTTP Server",
     version |-> "2.4.41", confidence |-> "100", tags |-> "['web']"]

Analyses == {AnAbsent, AnNulls, AnUnknown, AnApache}

MkObs(k, st, b, an, ts) ==
    [ip |-> k[1], port |-> k[2], protocol |-> k[3], status |-> st,
     banner |-> b, analysis |-> an, timestamp |-> ts]

KeyOf(r) == <<r.ip, r.port, r.protocol>>

\* dict.get(key): a missing key and a null value both give None
Get(d) == IF d = ABSENT THEN NULL ELSE d

\* dict.get(key, default): only a missing key gives the default
GetDefault(d, dflt) == IF d = ABSENT THEN dflt ELSE d

\* Python's str() of the tags value.  A list is represented by its text
\* ("[]", "['web']"), so str() keeps it; str(None) is the text "None".
PyStr(t) == IF t = NULL THEN "None" ELSE t

\* Python's `x or ""`: None and the empty string both give ""
OrEmpty(b) == IF b = NULL \/ b = "" THEN "" ELSE b

\* SQL COALESCE(new, old)
Coalesce(new, old) == IF new = NULL THEN old ELSE new

(***************************************************************************)
(* upsert_host_batch: executemany of INSERT ... ON CONFLICT(ip) DO UPDATE  *)
(***************************************************************************)
UpsertHost(hs, ip, ts) ==
    IF \E h \in hs : h.ip = ip
    THEN { IF h.ip = ip THEN [h EXCEPT !.last_seen = ts] ELSE h : h \in hs }
    ELSE hs \cup { [ip |-> ip, first_seen |-> ts, last_seen |-> ts] }

RECURSIVE UpsertHostBatch(_, _)
UpsertHostBatch(hs, batch) ==
    IF batch = <<>> THEN hs
    ELSE UpsertHostBatch(UpsertHost(hs, Head(batch).ip, Head(batch).timestamp),
                         Tail(batch))

(***************************************************************************)
(* save_observation_batch                                                  *)
(***************************************************************************)
\* existing_map: the rows of services read before the batch is processed
ExistingKeys(batch) ==
    { KeyOf(s) : s \in { t \in services :
                           \E i \in 1..Len(batch) : batch[i].ip = t.ip } }

ExistingRow(k) == CHOOSE s \in services : KeyOf(s) = k

IsUpdate(batch, o) == KeyOf(o) \in ExistingKeys(batch)

\* the history check of one update, against the row read before the batch
HistoryCheck(new_banner, new_state, old_banner, old_state) ==
    (new_banner # "" /\ new_banner # old_banner) \/ (new_state # old_state)

\* the parameter tuple appended to to_update
UpdateParams(o) ==
    [last_seen |-> o.timestamp,
     banner |-> OrEmpty(o.banner),
     service_type |-> Get(o.analysis.service_type),
     vendor |-> Get(o.analysis.vendor),
     product |-> Get(o.analysis.product),
     version |-> Get(o.analysis.version),
     confidence |-> Get(o.analysis.confidence),
     tags |-> PyStr(GetDefault(o.analysis.tags, "[]")),
     state |-> o.status,
     id |-> ExistingRow(KeyOf(o)).id]

\* the row written for a new service
InsertRow(o, id) ==
    [id |-> id, ip |-> o.ip, port |-> o.port, protocol |-> o.protocol,
     state |-> o.status,
     banner |-> o.banner,
     service_type |-> Get(o.analysis.service_type),
     vendor |-> Get(o.analysis.vendor),
     product |-> Get(o.analysis.product),
     version |-> Get(o.analysis.version),
     confidence |-> GetDefault(o.analysis.confidence, "0"),
     tags |-> PyStr(GetDefault(o.analysis.tags, "[]")),
     first_seen |-> o.timestamp, last_seen |-> o.timestamp]

\* (mutant) the UPDATE writes state but leaves the stored banner
UpdateRowKeepsBanner(s, p) ==
    [s EXCEPT !.last_seen = p.last_seen,
              !.service_type = Coalesce(p.service_type, @),
              !.vendor = Coalesce(p.vendor, @),
              !.product = Coalesce(p.product, @),
              !.version = Coalesce(p.version, @),
              !.confidence = Coalesce(p.confidence, @),
              !.tags = Coalesce(p.tags, @),
              !.state = p.state]

\* UPDATE services SET ... WHERE id = ?
UpdateRow(s, p) ==
    [s EXCEPT !.last_seen = p.last_seen,
              !.banner = p.banner,
              !.service_type = Coalesce(p.service_type, @),
              !.vendor = Coalesce(p.vendor, @),
              !.product = Coalesce(p.product, @),
              !.version = Coalesce(p.version, @),
              !.confidence = Coalesce(p.confidence, @),
              !.tags = Coalesce(p.tags, @),
              !.state = p.state]

ToInsert(batch) == SelectSeq(batch, LAMBDA o : ~IsUpdate(batch, o))

ToUpdate(batch) == SelectSeq(batch, LAMBDA o : IsUpdate(batch, o))

HistoryInserts(batch) ==
    LET hit(o) == HistoryCheck(OrEmpty(o.banner), o.status,
                               ExistingRow(KeyOf(o)).banner,
                               ExistingRow(KeyOf(o)).state)
        row(o) == [service_id |-> ExistingRow(KeyOf(o)).id,
                   timestamp |-> o.timestamp,
                   banner |-> OrEmpty(o.banner), state |-> o.status]
        RECURSIVE rows(_)
        rows(q) == IF q = <<>> THEN <<>>
                   ELSE IF hit(Head(q)) THEN <<row(Head(q))>> \o rows(Tail(q))
                   ELSE rows(Tail(q))
    IN rows(ToUpdate(batch))

\* (mutant) the table has no unique index
NoUniqueIndex(svcs, ins) == FALSE

\* UNIQUE(ip, port, protocol): the INSERT of a key that is already stored,
\* or that an earlier row of the same executemany wrote, raises IntegrityError
UniqueViolation(svcs, ins) ==
    \/ \E i, j \in 1..Len(ins) : i < j /\ KeyOf(ins[i]) = KeyOf(ins[j])
    \/ \E i \in 1..Len(ins) : \E s \in svcs : KeyOf(s) = KeyOf(ins[i])

InsertAll(svcs, ins, firstId) ==
    svcs \cup { InsertRow(ins[i], firstId + i - 1) : i \in 1..Len(ins) }

RECURSIVE UpdateAll(_, _)
UpdateAll(svcs, ups) ==
    IF ups = <<>> THEN svcs
    ELSE LET p == UpdateParams(Head(ups))
         IN UpdateAll({ IF s.id = p.id THEN UpdateRow(s, p) ELSE s : s \in svcs },
                      Tail(ups))

RECURSIVE AppendLog(_, _)
AppendLog(log, batch) ==
    IF batch = <<>> THEN log
    ELSE AppendLog([log EXCEPT ![KeyOf(Head(batch))] =
                        Append(@, [status |-> Head(batch).status,
                                   banner |-> Head(batch).banner])],
                   Tail(batch))

\* save_observation_batch from step 2 on, hs being the hosts table that
\* upsert_host_batch left
SaveAfterHosts(batch, hs) ==
    IF UniqueViolation(services, ToInsert(batch))
    THEN /\ saveStatus' = "IntegrityError"
         /\ UNCHANGED <<hosts, services, history, nextServiceId>>
    ELSE /\ hosts' = hs
         /\ services' = UpdateAll(InsertAll(services, ToInsert(batch), nextServiceId),
                                  ToUpdate(batch))
         /\ nextServiceId' = nextServiceId + Len(ToInsert(batch))
         /\ history' = history \o HistoryInserts(batch)
         /\ saveStatus' = "ok"

\* the writes of one batch and their commit; an exception leaves the
\* connection without a commit, so no write of the batch is kept
SaveEffect(batch) == SaveAfterHosts(batch, UpsertHostBatch(hosts, batch))

SaveObservationBatch(batch) ==
    /\ batch # <<>>
    /\ passed + Len(batch) <= MaxObs
    /\ passed' = passed + Len(batch)
    /\ lastBatch' = batch
    /\ SaveEffect(batch)
    /\ obsLog' = IF saveStatus' = "ok" THEN AppendLog(obsLog, batch) ELSE obsLog
    /\ UNCHANGED <<now, schedVars, scanVars, mainVars, libVars, taskVars>>

\* save_observation_batch when the executemany of upsert_host_batch raises:
\* the handler logs the error and the call goes on with the services
SaveObservationBatchHostError(batch) ==
    /\ batch # <<>>
    /\ passed + Len(batch) <= MaxObs
    /\ passed' = passed + Len(batch)
    /\ lastBatch' = batch
    /\ SaveAfterHosts(batch, hosts)
    /\ obsLog' = IF saveStatus' = "ok" THEN AppendLog(obsLog, batch) ELSE obsLog
    /\ UNCHANGED <<now, schedVars, scanVars, mainVars, libVars, taskVars>>

(***************************************************************************)
(* The store on its own: batches drawn from a bounded set of observations. *)
(***************************************************************************)
\* every status and banner on one key, and every analysis on the other
SaveObs ==
    { MkObs(<<"10.0.0.1", 22, "tcp">>, st, b, AnUnknown, 1) : st \in Statuses, b \in Banners }
    \cup { MkObs(<<"10.0.0.1", 80, "tcp">>, "open", "SSH-2.0-A", an, 1) : an \in Analyses }

\* the batches over S that still fit the bounds
BatchesOf(S) ==
    UNION { [1..n -> S] : n \in { m \in 1..MaxBatch : passed + m <= MaxObs } }

\* init_db on a new file: every table empty
EmptyStore ==
    /\ hosts = {}
    /\ services = {}
    /\ history = <<>>
    /\ nextServiceId = 1
    /\ saveStatus = "none"
    /\ obsLog = [k \in Keys |-> <<>>]
    /\ lastBatch = <<>>
    /\ passed = 0

(***************************************************************************)
(* fingerprint.py.  A text is a sequence of lexical tokens (white space is *)
(* dropped; None and "" are both the empty sequence, `if not text` treats  *)
(* them alike), a regular expression is a sequence of elements that match  *)
(* one token each, and re.search returns the leftmost match.               *)
(***************************************************************************)
\* str.lower() of a token: re.IGNORECASE compares case-folded text
Lower(tok) ==
    CASE tok = "Apache" -> "apache"
      [] tok = "APACHE" -> "apache"
      [] tok = "Caddy" -> "caddy"
      [] tok = "Hikvision" -> "hikvision"
      [] tok = "App-webs" -> "app-webs"
      [] tok = "OpenSSH" -> "openssh"
      [] tok = "HTTP/" -> "http/"
      [] tok = "RTSP/" -> "rtsp/"
      [] tok = "Server:" -> "server:"
      [] tok = "RFB" -> "rfb"
      [] tok = "FTP" -> "ftp"
      [] tok = "ProFTPD" -> "proftpd"
      [] tok = "Dahua" -> "dahua"
      [] tok = "Home" -> "home"
      [] tok = "Assistant" -> "assistant"
      [] OTHER -> tok

\* the tokens the character classes of the rules match in full
InClass(cls, tok) ==
    CASE cls = "[\\d\\.]+" -> tok \in {"2.4.41", "1.18.0", "1.1", "1.0", "200", "220", "003.008"}
      [] cls = "[\\w\\.]+" -> tok \in {"2.4.41", "1.18.0", "1.1", "1.0", "200", "220", "003.008",
                                      "8.2p1", "OK"}
      [] cls = "\\d\\.\\d" -> tok \in {"1.1", "1.0"}
      [] cls = "\\d{3}\\.\\d{3}" -> tok \in {"003.008"}
      [] OTHER -> FALSE

\* elements of a regular expression: literal text, a character class
\* (captured when it stands in parentheses), and `.*`
Lit(t) == [k |-> "lit", t |-> t, cap |-> FALSE]

Cls(c) == [k |-> "class", t |-> c, cap |-> FALSE]

Group(c) == [k |-> "class", t |-> c, cap |-> TRUE]

AnyText == [k |-> "any", t |-> "", cap |-> FALSE]

\* a pattern, and a pattern that starts with ^
Re(elems) == [anchored |-> FALSE, elems |-> elems]

ReStart(elems) == [anchored |-> TRUE, elems |-> elems]

\* no match object (None); groups is what m.groups() returns for a match
NoMatch == [ok |-> FALSE, groups |-> <<>>]

\* the match of the elements against text from token i on; `.*` is greedy
RECURSIVE MatchFrom(_, _, _)
MatchFrom(elems, text, i) ==
    IF elems = <<>> THEN [ok |-> TRUE, groups |-> <<>>]
    ELSE LET e == Head(elems)
         IN IF e.k = "any"
            THEN LET ends == { n \in i..(Len(text) + 1) : MatchFrom(Tail(elems), text, n).ok }
                 IN IF ends = {} THEN NoMatch
                    ELSE MatchFrom(Tail(elems), text,
                                   CHOOSE n \in ends : \A m \in ends : m <= n)
            ELSE IF i > Len(text) THEN NoMatch
            ELSE IF (e.k = "lit" /\ Lower(text[i]) = e.t) \/ (e.k = "class" /\ InClass(e.t, text[i]))
                 THEN LET rest == MatchFrom(Tail(elems), text, i + 1)
                      IN IF rest.ok
                         THEN [ok |-> TRUE,
                               groups |-> (IF e.cap THEN <<text[i]>> ELSE <<>>) \o rest.groups]
                         ELSE NoMatch
                 ELSE NoMatch

\* re.search(regex, text, re.IGNORECASE)
re_search(regex, text) ==
    LET starts == IF regex.anchored THEN {1} ELSE 1..(Len(text) + 1)
        hits == { i \in starts : MatchFrom(regex.elems, text, i).ok }
    IN IF hits = {} THEN NoMatch
       ELSE MatchFrom(regex.elems, text, CHOOSE i \in hits : \A j \in hits : i <= j)

\* evaluate's helper check(text, regex)
check(text, regex) == IF text = <<>> THEN NoMatch ELSE re_search(regex, text)

\* add_evidence(location, pattern, weight)
Evidence(location, pattern, weight) ==
    [location |-> location, pattern |-> pattern, weight |-> weight]

\* FingerprintRule(name, type, vendor, product) with its evidence
FingerprintRule(name, type, vendor, product, evidence) ==
    [name |-> name, type |-> type, vendor |-> vendor, product |-> product,
     evidence |-> evidence]

\* the module's list RULES, in the order of its append calls
RULES ==
    << FingerprintRule("Apache", "http", "Apache", "HTTP Server",
          << Evidence("banner", Re(<<Lit("apache")>>), 40),
             Evidence("banner", Re(<<Lit("apache"), Lit("/"), Group("[\\d\\.]+")>>), 60),
             Evidence("header:server", Re(<<Lit("apache")>>), 30) >>),
       FingerprintRule("Nginx", "http", "Nginx", "Nginx",
          << Evidence("banner", Re(<<Lit("nginx")>>), 40),
             Evidence("banner", Re(<<Lit("nginx"), Lit("/"), Group("[\\d\\.]+")>>), 60),
             Evidence("header:server", Re(<<Lit("nginx")>>), 30) >>),
       FingerprintRule("Hikvision", "camera", "Hikvision", "IP Camera",
          << Evidence("banner", Re(<<Lit("hikvision")>>), 50),
             Evidence("body", Re(<<Lit("<title>"), Lit("hikvision"), Lit("</title>")>>), 60),
             Evidence("header:server", Re(<<Lit("hikvision")>>), 50),
             Evidence("header:server", Re(<<Lit("app-webs")>>), 30) >>),
       FingerprintRule("OpenSSH", "ssh", "OpenBSD", "OpenSSH",
          << Evidence("banner", Re(<<Lit("openssh")>>), 50),
             Evidence("banner", Re(<<Lit("openssh"), Lit("_"), Group("[\\w\\.]+")>>), 50) >>),
       FingerprintRule("Generic HTTP", "http", "unknown", "HTTP Server",
          << Evidence("banner", Re(<<Lit("http/"), Cls("\\d\\.\\d")>>), 30),
             Evidence("banner", Re(<<Lit("server:")>>), 20),
             Evidence("body", Re(<<Lit("<html")>>), 40) >>),
       FingerprintRule("Generic RTSP", "rtsp", "unknown", "RTSP Server",
          << Evidence("banner", Re(<<Lit("rtsp/"), Cls("\\d\\.\\d")>>), 50) >>),
       FingerprintRule("VNC", "vnc", "RealVNC", "VNC Server",
          << Evidence("banner", ReStart(<<Lit("rfb"), Cls("\\d{3}\\.\\d{3}")>>), 100) >>),
       FingerprintRule("FTP", "ftp", "unknown", "FTP Server",
          << Evidence("banner", ReStart(<<Lit("220"), AnyText, Lit("ftp")>>), 80),
             Evidence("banner", Re(<<Lit("vsftpd")>>), 90),
             Evidence("banner", Re(<<Lit("proftpd")>>), 90) >>),
       FingerprintRule("Caddy", "http", "Caddy", "Caddy Web Server",
          << Evidence("header:server", Re(<<Lit("caddy")>>), 100) >>),
       FingerprintRule("Dahua", "camera", "Dahua", "IP Camera",
          << Evidence("banner", Re(<<Lit("dahua")>>), 60),
             Evidence("header:server", Re(<<Lit("dahua")>>), 60),
             Evidence("body", Re(<<Lit("dahua")>>), 40) >>),
       FingerprintRule("Home Assistant", "iot", "Home Assistant", "Home Assistant",
          << Evidence("body", Re(<<Lit("home"), Lit("assistant")>>), 80),
             Evidence("title", Re(<<Lit("home"), Lit("assistant")>>), 80) >>) >>

RuleIds == 1..Len(RULES)

\* evaluate: the text an evidence entry is checked against; headers.get of
\* the key after "header:" (the rules name the server header only)
LocationText(ob, location) ==
    CASE location = "banner" -> ob.banner
      [] location = "body" -> ob.body
      [] location = "header:server" -> ob.server
      [] location = "title" -> ob.body

\* evaluate: the pattern checked, f"<title>.*{pattern}.*</title>" for a title
LocationPattern(ev) ==
    IF ev.location = "title"
    THEN Re(<<Lit("<title>"), AnyText>> \o ev.pattern.elems \o <<AnyText, Lit("</title>")>>)
    ELSE ev.pattern

\* (mutant) a match without captures leaves self.last_groups as it was
RECURSIVE EvaluateFromKeepsGroups(_, _, _, _, _)
EvaluateFromKeepsGroups(evidence, k, ob, total_score, last_groups) ==
    IF k > Len(evidence) THEN [total_score |-> total_score, last_groups |-> last_groups]
    ELSE LET m == check(LocationText(ob, evidence[k].location), LocationPattern(evidence[k]))
         IN IF m.ok
            THEN EvaluateFromKeepsGroups(evidence, k + 1, ob, total_score + evidence[k].weight,
                                         IF m.groups # <<>> THEN m.groups ELSE last_groups)
            ELSE EvaluateFromKeepsGroups(evidence, k + 1, ob, total_score, last_groups)

\* evaluate: the loop over self.evidence from entry k on; every match adds
\* its weight and stores m.groups() in self.last_groups
RECURSIVE EvaluateFrom(_, _, _, _, _)
EvaluateFrom(evidence, k, ob, total_score, last_groups) ==
    IF k > Len(evidence) THEN [total_score |-> total_score, last_groups |-> last_groups]
    ELSE LET m == check(LocationText(ob, evidence[k].location), LocationPattern(evidence[k]))
         IN IF m.ok
            THEN EvaluateFrom(evidence, k + 1, ob, total_score + evidence[k].weight, m.groups)
            ELSE EvaluateFrom(evidence, k + 1, ob, total_score, last_groups)

\* the cap of evaluate's return value
ScoreCap == 100

\* FingerprintRule.evaluate(observation): the score returned and the
\* rule's last_groups afterwards
evaluate(rule, ob, last_groups) ==
    LET e == EvaluateFrom(rule.evidence, 1, ob, 0, last_groups)
    IN [score |-> IF e.total_score < ScoreCap THEN e.total_score ELSE ScoreCap,
        last_groups |-> e.last_groups]

\* (mutant) a later rule with an equal score replaces the best rule
BetterOrEqual(score, best_score) == score >= best_score

\* analyze: `if score > best_score`
Better(score, best_score) == score > best_score

\* analyze: the loop over RULES from rule r on
RECURSIVE AnalyzeFrom(_, _, _, _, _)
AnalyzeFrom(r, ob, groups, best_rule, best_score) ==
    IF r > Len(RULES)
    THEN [best_rule |-> best_rule, best_score |-> best_score, groups |-> groups]
    ELSE LET e == evaluate(RULES[r], ob, groups[r])
             after == [groups EXCEPT ![r] = e.last_groups]
         IN IF Better(e.score, best_score)
            THEN AnalyzeFrom(r + 1, ob, after, r, e.score)
            ELSE AnalyzeFrom(r + 1, ob, after, best_rule, best_score)

\* analyze(observation_dict): the result dictionary (without tags and
\* evidence) and the last_groups of the rules afterwards
analyze(ob, groups) ==
    LET a == AnalyzeFrom(1, ob, groups, 0, 0)
    IN [result |->
          IF a.best_rule # 0 /\ a.best_score > 0
          THEN [service_type |-> RULES[a.best_rule].type,
                vendor |-> RULES[a.best_rule].vendor,
                product |-> RULES[a.best_rule].product,
                version |-> IF a.groups[a.best_rule] # <<>>
                            THEN a.groups[a.best_rule][1] ELSE NULL,
                confidence |-> a.best_score]
          ELSE [service_type |-> "unknown", vendor |-> "unknown", product |-> "unknown",
                version |-> NULL, confidence |-> 0],
        groups |-> a.groups]

(***************************************************************************)
(* probes.py.  What a socket read returns is a string (text protocols) or  *)
(* a sequence of byte values (MQTT, the VNC security types); a call is the *)
(* port, the outcome of the connection and the outcome of each read.       *)
(***************************************************************************)
\* stands for a byte that no UTF-8 text contains
BadByte == "#"

RECURSIVE decode_ignore(_)
\* bytes.decode('utf-8', errors='ignore')
decode_ignore(data) ==
    IF data = "" THEN ""
    ELSE (IF SubSeq(data, 1, 1) = BadByte THEN "" ELSE SubSeq(data, 1, 1))
           \o decode_ignore(SubSeq(data, 2, Len(data)))

\* bytes.decode() succeeds
Decodable(data) == \A i \in 1..Len(data) : SubSeq(data, i, i) # BadByte

Whitespace == {" ", "\t", "\r", "\n"}

RECURSIVE strip(_)
\* str.strip()
strip(s) ==
    IF s = "" THEN ""
    ELSE IF SubSeq(s, 1, 1) \in Whitespace THEN strip(SubSeq(s, 2, Len(s)))
    ELSE IF SubSeq(s, Len(s), Len(s)) \in Whitespace THEN strip(SubSeq(s, 1, Len(s) - 1))
    ELSE s

LowerChar(ch) ==
    CASE ch = "A" -> "a"
      [] ch = "B" -> "b"
      [] ch = "C" -> "c"
      [] ch = "D" -> "d"
      [] ch = "E" -> "e"
      [] ch = "F" -> "f"
      [] ch = "G" -> "g"
      [] ch = "H" -> "h"
      [] ch = "I" -> "i"
      [] ch = "J" -> "j"
      [] ch = "K" -> "k"
      [] ch = "L" -> "l"
      [] ch = "M" -> "m"
      [] ch = "N" -> "n"
      [] ch = "O" -> "o"
      [] ch = "P" -> "p"
      [] ch = "Q" -> "q"
      [] ch = "R" -> "r"
      [] ch = "S" -> "s"
      [] ch = "T" -> "t"
      [] ch = "U" -> "u"
      [] ch = "V" -> "v"
      [] ch = "W" -> "w"
      [] ch = "X" -> "x"
      [] ch = "Y" -> "y"
      [] ch = "Z" -> "z"
      [] OTHER -> ch

RECURSIVE lower(_)
\* str.lower()
lower(s) ==
    IF s = "" THEN "" ELSE LowerChar(SubSeq(s, 1, 1)) \o lower(SubSeq(s, 2, Len(s)))

\* str.startswith(prefix)
startswith(s, prefix) ==
    Len(s) >= Len(prefix) /\ SubSeq(s, 1, Len(prefix)) = prefix

\* sub in s
contains(sub, s) ==
    \E i \in 1..(Len(s) - Len(sub) + 1) : SubSeq(s, i, i + Len(sub) - 1) = sub

\* s[:n]
prefix_of(s, n) == SubSeq(s, 1, IF Len(s) < n THEN Len(s) ELSE n)

\* a read that returned data, a read that raised
Data(d) == [exc |-> "", data |-> d]
Raises(e) == [exc |-> e, data |-> ""]
RaisesBytes(e) == [exc |-> e, data |-> <<>>]

\* str(e) of the exceptions the probes meet
str_of(e) ==
    CASE e = "TimeoutError" -> ""
      [] e = "ConnectionRefusedError" -> "[Errno 111] Connect call failed"
      [] e = "OSError" -> "[Errno 113] Connect call failed"
      [] e = "ConnectionResetError" -> "[Errno 104] Connection reset by peer"
      [] e = "NameError" -> "name 're' is not defined"
      [] e = "UnicodeDecodeError" -> "'utf-8' codec can't decode byte"
      [] OTHER -> e

\* Observation(...): the fields the probes set, next to what the probe wrote
\* to the socket (sent: text commands, packet: bytes)
Observation(service, status, error_reason, banner, sent, packet) ==
    [service |-> service, status |-> status, error_reason |-> error_reason,
     banner |-> banner, sent |-> sent, packet |-> packet]

\* status="open", banner=...
Open(service, banner, sent, packet) ==
    Observation(service, "open", NULL, banner, sent, packet)

\* except Exception as e: status="closed", error_reason=str(e)
Caught(service, e, sent, packet) ==
    Observation(service, "closed", str_of(e), NULL, sent, packet)

\* TCPProbe.run: the only probe that tells timeout, refusal and other faults
\* apart; a fault of the banner read is swallowed
TCPProbe_run(call) ==
    IF call.connect = "TimeoutError"
    THEN Observation("tcp", "timeout", "Timeout", NULL, <<>>, <<>>)
    ELSE IF call.connect = "ConnectionRefusedError"
    THEN Observation("tcp", "closed", "Refused", NULL, <<>>, <<>>)
    ELSE IF call.connect = "OSError"
    THEN Observation("tcp", "error", str_of(call.connect), NULL, <<>>, <<>>)
    ELSE Open("tcp",
              IF call.read.exc # "" THEN "" ELSE strip(decode_ignore(call.read.data)),
              <<>>, <<>>)

RECURSIVE head_part(_)
\* raw_response.split('\r\n\r\n', 1)[0]
head_part(raw) ==
    IF raw = "" \/ startswith(raw, "\r\n\r\n") THEN ""
    ELSE SubSeq(raw, 1, 1) \o head_part(SubSeq(raw, 2, Len(raw)))

HTTP_REQUEST == "GET / HTTP/1.1\r\nHost: {ip}\r\nUser-Agent: DeepFocus/1.0\r\nConnection: close\r\n\r\n"

\* HTTPProbe.run (headers, body and response_code of the result left out)
HTTPProbe_run(call) ==
    IF call.connect # "connected" THEN Caught("http", call.connect, <<>>, <<>>)
    ELSE IF call.read.exc # "" THEN Caught("http", call.read.exc, <<HTTP_REQUEST>>, <<>>)
    ELSE Open(IF call.port \in {443, 8443} THEN "https" ELSE "http",
              head_part(decode_ignore(call.read.data)), <<HTTP_REQUEST>>, <<>>)

\* VNCProbe.run: the description of one security type
TypeDesc(b) ==
    CASE b = 1 -> "None (OPEN)"
      [] b = 2 -> "VNC Auth"
      [] b = 16 -> "TightVNC"
      [] b = 19 -> "VeNCrypt (TLS)"
      [] OTHER -> "Type(" \o ToString(b) \o ")"

RECURSIVE join(_)
\* ", ".join(types_desc)
join(descs) ==
    IF descs = <<>> THEN ""
    ELSE IF Len(descs) = 1 THEN descs[1]
    ELSE descs[1] \o ", " \o join(Tail(descs))

\* VNCProbe.run
VNCProbe_run(call) ==
    IF call.connect # "connected" THEN Caught("vnc", call.connect, <<>>, <<>>)
    ELSE IF call.version.exc # "" THEN Caught("vnc", call.version.exc, <<>>, <<>>)
    ELSE LET server_version == call.version.data
             sent == <<server_version>>
         IN IF call.sec_len.exc # "" THEN Caught("vnc", call.sec_len.exc, sent, <<>>)
            ELSE IF call.sec_len.data = <<>>
            THEN Caught("vnc", "Empty security payload", sent, <<>>)
            ELSE IF call.sec_len.data[1] = 0
            THEN IF call.reason.exc # "" THEN Caught("vnc", call.reason.exc, sent, <<>>)
                 ELSE IF ~Decodable(server_version) \/ ~Decodable(call.reason.data)
                 THEN Caught("vnc", "UnicodeDecodeError", sent, <<>>)
                 ELSE Open("vnc", strip(server_version) \o " (Connect Failed: "
                                    \o strip(call.reason.data) \o ")", sent, <<>>)
            ELSE IF call.sec_types.exc # "" THEN Caught("vnc", call.sec_types.exc, sent, <<>>)
                 ELSE IF ~Decodable(server_version)
                 THEN Caught("vnc", "UnicodeDecodeError", sent, <<>>)
                 ELSE Open("vnc", strip(server_version) \o " | Auth: ["
                                    \o join([i \in 1..Len(call.sec_types.data) |->
                                               TypeDesc(call.sec_types.data[i])])
                                    \o "]", sent, <<>>)

USER_COMMAND == "USER anonymous\r\n"

PASS_COMMAND == "PASS anonymous@\r\n"

\* (mutant) a 500 reply or the word auth is not told apart from other errors
UserReplyNoEncryption(resp_user_str) ==
    IF startswith(resp_user_str, "230") THEN "Anonymous Access ALLOWED (No Pass)"
    ELSE IF startswith(resp_user_str, "530") THEN "Anonymous User Rejected"
    ELSE "Handshake Error: " \o prefix_of(resp_user_str, 3)

\* FTPProbe.run: the outcome when the reply to USER does not begin with 331
UserReply(resp_user_str) ==
    IF startswith(resp_user_str, "230") THEN "Anonymous Access ALLOWED (No Pass)"
    ELSE IF startswith(resp_user_str, "530") THEN "Anonymous User Rejected"
    ELSE IF startswith(resp_user_str, "500") \/ contains("auth", lower(resp_user_str))
    THEN "Encryption Required (AUTH TLS)"
    ELSE "Handshake Error: " \o prefix_of(resp_user_str, 3)

\* FTPProbe.run: the outcome after PASS
PassReply(resp_pass_str) ==
    IF startswith(resp_pass_str, "230") THEN "Anonymous Access ALLOWED"
    ELSE IF startswith(resp_pass_str, "530") THEN "Anonymous Access DENIED (530)"
    ELSE "Login Failed Code: " \o prefix_of(resp_pass_str, 3)

\* final_banner = f"{banner_str} | Auth: [{auth_status}]"
FtpBanner(banner_str, auth_status) == banner_str \o " | Auth: [" \o auth_status \o "]"

\* FTPProbe.run
FTPProbe_run(call) ==
    IF call.connect # "connected" THEN Caught("ftp", call.connect, <<>>, <<>>)
    ELSE IF call.greeting.exc # "" THEN Caught("ftp", call.greeting.exc, <<>>, <<>>)
    ELSE LET banner_str == strip(decode_ignore(call.greeting.data))
         IN IF ~startswith(banner_str, "220")
            THEN Open("ftp", FtpBanner(banner_str, "Unknown"), <<>>, <<>>)
            ELSE IF call.user.exc # ""
            THEN Caught("ftp", call.user.exc, <<USER_COMMAND>>, <<>>)
            ELSE LET resp_user_str == strip(decode_ignore(call.user.data))
                 IN IF ~startswith(resp_user_str, "331")
                    THEN Open("ftp", FtpBanner(banner_str, UserReply(resp_user_str)),
                              <<USER_COMMAND>>, <<>>)
                    ELSE IF call.pass.exc # ""
                    THEN Caught("ftp", call.pass.exc, <<USER_COMMAND, PASS_COMMAND>>, <<>>)
                    ELSE Open("ftp",
                              FtpBanner(banner_str,
                                        PassReply(strip(decode_ignore(call.pass.data)))),
                              <<USER_COMMAND, PASS_COMMAND>>, <<>>)

\* SSHProbe.run
SSHProbe_run(call) ==
    IF call.connect # "connected" THEN Caught("ssh", call.connect, <<>>, <<>>)
    ELSE IF call.read.exc # "" THEN Caught("ssh", call.read.exc, <<>>, <<>>)
    ELSE LET banner_str == strip(decode_ignore(call.read.data))
             banner_lower == lower(banner_str)
             device_info ==
                 IF contains("dropbear", banner_lower) THEN "Dropbear (Embedded/IoT)"
                 ELSE IF contains("cisco", banner_lower) THEN "Cisco IOS"
                 ELSE IF contains("mikrotik", banner_lower) THEN "MikroTik Router"
                 ELSE IF contains("openssh", banner_lower) THEN "OpenSSH"
                 ELSE "SSH Service"
         IN Open("ssh", banner_str \o " | Device: [" \o device_info \o "]", <<>>, <<>>)

RTSP_REQUEST == "OPTIONS rtsp://{ip}:{port}/ RTSP/1.0\r\nCSeq: 1\r\nUser-Agent: DeepFocus\r\n\r\n"

\* brands, each with brand.capitalize()
Brands ==
    << <<"hikvision", "Hikvision">>, <<"dahua", "Dahua">>, <<"axis", "Axis">>,
       <<"foscam", "Foscam">>, <<"amcrest", "Amcrest">>, <<"reolink", "Reolink">>,
       <<"ubiquiti", "Ubiquiti">> >>

\* RTSPProbe.run
RTSPProbe_run(call) ==
    IF call.connect # "connected" THEN Caught("rtsp", call.connect, <<>>, <<>>)
    ELSE IF call.read.exc # "" THEN Caught("rtsp", call.read.exc, <<RTSP_REQUEST>>, <<>>)
    ELSE LET response_str == decode_ignore(call.read.data)
             auth_status ==
                 IF contains("RTSP/1.0 200", response_str) THEN "No Auth Required (OPEN)"
                 ELSE IF contains("RTSP/1.0 401", response_str) THEN "Auth Required"
                 ELSE IF contains("RTSP/1.0 403", response_str) THEN "Forbidden"
                 ELSE "Unknown"
             resp_lower == lower(response_str)
             found == {i \in 1..Len(Brands) : contains(Brands[i][1], resp_lower)}
             camera_brand ==
                 IF found = {} THEN "RTSP Camera"
                 ELSE Brands[CHOOSE i \in found : \A j \in found : i <= j][2]
         IN Open("rtsp", camera_brand \o " | Auth: [" \o auth_status \o "]",
                 <<RTSP_REQUEST>>, <<>>)

\* TelnetProbe.run: the module never imports re, so re.sub raises NameError
\* once a banner has been read, and the except clause catches it
TelnetProbe_run(call) ==
    IF call.connect # "connected" THEN Caught("telnet", call.connect, <<>>, <<>>)
    ELSE IF call.read.exc # "" THEN Caught("telnet", call.read.exc, <<>>, <<>>)
    ELSE Caught("telnet", "NameError", <<>>, <<>>)

HexDigits == "0123456789ABCDEF"

\* the value of one hexadecimal digit
HexVal(ch) == (CHOOSE i \in 1..Len(HexDigits) : SubSeq(HexDigits, i, i) = ch) - 1

RECURSIVE fromhex(_)
\* bytes.fromhex(h)
fromhex(h) ==
    IF h = "" THEN <<>>
    ELSE <<16 * HexVal(SubSeq(h, 1, 1)) + HexVal(SubSeq(h, 2, 2))>>
           \o fromhex(SubSeq(h, 3, Len(h)))

connect_packet == fromhex("101000044D5154540402003C000474657374")

\* (mutant) the return code is read from the byte before the last
ReturnCodeAtFlags(response) == response[3]

\* return_code = response[3] (Python counts bytes from 0)
ReturnCode(response) == response[4]

\* MQTTProbe.run: status_msg
StatusMsg(response) ==
    IF Len(response) >= 4 /\ response[1] = 32
    THEN LET return_code == ReturnCode(response)
         IN CASE return_code = 0 -> "Access ALLOWED (No Auth)"
              [] return_code = 1 -> "Refused: Protocol Version"
              [] return_code = 2 -> "Refused: ID Rejected"
              [] return_code = 3 -> "Refused: Server Unavailable"
              [] return_code = 4 -> "Refused: Bad User/Pass"
              [] return_code = 5 -> "Refused: Not Authorized"
              [] OTHER -> "Refused: Code " \o ToString(return_code)
    ELSE "Unknown"

\* MQTTProbe.run
MQTTProbe_run(call) ==
    IF call.connect # "connected" THEN Caught("mqtt", call.connect, <<>>, <<>>)
    ELSE IF call.read.exc # "" THEN Caught("mqtt", call.read.exc, <<>>, connect_packet)
    ELSE Open("mqtt", StatusMsg(call.read.data), <<>>, connect_packet)

\* get_probe(port): the probe class for a port
get_probe(port) ==
    IF port \in {80, 8080, 8000, 443, 8443} THEN "HTTPProbe"
    ELSE IF port = 5900 THEN "VNCProbe"
    ELSE IF port = 21 THEN "FTPProbe"
    ELSE IF port = 22 THEN "SSHProbe"
    ELSE IF port = 554 THEN "RTSPProbe"
    ELSE IF port = 23 THEN "TelnetProbe"
    ELSE IF port = 1883 THEN "MQTTProbe"
    ELSE "TCPProbe"

\* get_probe(port).run(ip)
run(call) ==
    LET probe == get_probe(call.port)
    IN CASE probe = "HTTPProbe" -> HTTPProbe_run(call)
         [] probe = "VNCProbe" -> VNCProbe_run(call)
         [] probe = "FTPProbe" -> FTPProbe_run(call)
         [] probe = "SSHProbe" -> SSHProbe_run(call)
         [] probe = "RTSPProbe" -> RTSPProbe_run(call)
         [] probe = "TelnetProbe" -> TelnetProbe_run(call)
         [] probe = "MQTTProbe" -> MQTTProbe_run(call)
         [] OTHER -> TCPProbe_run(call)

\* no analyze call and no probe call has been made in this process
NoCall ==
    /\ observation = [banner |-> <<>>, server |-> <<>>, body |-> <<>>]
    /\ analysis = [service_type |-> NULL, vendor |-> NULL, product |-> NULL,
                   version |-> NULL, confidence |-> 0]
    /\ lastGroups = [r \in RuleIds |-> <<>>]
    /\ probeCall = [port |-> 0]
    /\ probeResult = Observation(NULL, NULL, NULL, NULL, <<>>, <<>>)

Engines == {1, 2}

\* init_db on a new file and engine processes that have not started a call
EmptyQueue ==
    /\ chunks = <<>>
    /\ lastMaintenance = [e \in Engines |-> 0]
    /\ pc = [e \in Engines |-> "idle"]
    /\ cand = [e \in Engines |-> <<>>]
    /\ cur = [e \in Engines |-> 0]
    /\ ret = [e \in Engines |-> 0]
    /\ op = [name |-> "init"]

Workers == 1..NumWorkers

\* the chunk range and the port list of the scan_chunk calls of SpecScan
DefaultInput == [start_ip |-> "10.0.0.1", end_ip |-> "10.0.0.2", ports |-> <<22, 80>>]

\* no item has been counted
NoCounts == [item \in {} |-> 0]

\* no scan_chunk call has been made
NoScan ==
    /\ scanpc = "none"
    /\ queue = <<>>
    /\ unfinished = 0
    /\ wpc = [w \in Workers |-> "none"]
    /\ witem = [w \in Workers |-> <<>>]
    /\ buffer = <<>>
    /\ produced = {}
    /\ flushed = {}
    /\ completed = 0
    /\ scanId = 0
    /\ taken = NoCounts
    /\ probed = NoCounts
    /\ handouts = NoCounts

InitStore ==
    /\ chunksProcessed = 0
    /\ loopMode = TRUE
    /\ NoCall
    /\ EmptyStore
    /\ EmptyQueue
    /\ NoScan
    /\ scanInput = DefaultInput
    /\ now = 0

NextSave == \E batch \in BatchesOf(SaveObs) : SaveObservationBatch(batch)

SpecSave == InitStore /\ [][NextSave]_vars

(***************************************************************************)
(* Claims about save_observation_batch, checked under SpecSave.            *)
(***************************************************************************)
HistoryCount(k) ==
    Cardinality({ i \in 1..Len(history) : history[i].service_id = ExistingRow(k).id })

IsEmptyBanner(b) == b = NULL \/ b = ""

\* an adjacent pair of observations that counts as a change
PairChanged(a, b) ==
    a.status # b.status \/ (~IsEmptyBanner(b.banner) /\ b.banner # a.banner)

ChangedPairs(log) ==
    Cardinality({ i \in 1..(Len(log) - 1) : PairChanged(log[i], log[i + 1]) })

\* some key occurs more than once in the batch
RepeatsKey(batch) ==
    \E i, j \in 1..Len(batch) : i < j /\ KeyOf(batch[i]) = KeyOf(batch[j])

\* C1: for every service key, the number of history rows of its service is
\* the number of adjacent pairs of committed observations in which the
\* status differs or the later banner is non-empty and differs.
C1_HistoryCountsChangedPairs ==
    \A k \in Keys :
        obsLog[k] # <<>> => HistoryCount(k) = ChangedPairs(obsLog[k])

Last(q) == q[Len(q)]

\* C9 as stated: the stored state and banner are those of the last
\* observation committed for the key.
C9_RowEqualsLastObservation ==
    \A k \in Keys :
        obsLog[k] # <<>> =>
            /\ ExistingRow(k).state = Last(obsLog[k]).status
            /\ ExistingRow(k).banner = Last(obsLog[k]).banner

\* C9 (amended): the stored state is the status of the last observation
\* committed for the key; the stored banner is that observation's banner,
\* except that an update stores a null banner as the empty string.
C9_LastObservationWins ==
    \A k \in Keys :
        obsLog[k] # <<>> =>
            /\ ExistingRow(k).state = Last(obsLog[k]).status
            /\ ExistingRow(k).banner =
                   IF Len(obsLog[k]) > 1 /\ Last(obsLog[k]).banner = NULL
                   THEN "" ELSE Last(obsLog[k]).banner

\* a service updated (twice, in one batch) whose last observation has no banner
C9_Witness ==
    \E k \in Keys :
        /\ Len(obsLog[k]) = 3
        /\ Len(lastBatch) = 2
        /\ Last(obsLog[k]).banner = NULL
        /\ obsLog[k][2].banner = "SSH-2.0-B"
        /\ ExistingRow(k).banner = ""

NoValue(v) == v = NULL \/ v = ABSENT

\* the positions of the batch that update the stored row s
UpdatesOf(batch, s) == { i \in 1..Len(batch) : KeyOf(batch[i]) = KeyOf(s) }

\* C10: when a committed batch updates an existing service, each of
\* service_type, vendor, product, version, confidence and tags keeps its
\* stored value if the batch's observations of that service supply no value
\* for it, and last_seen, banner and state are those of the last of them.
C10_CoalesceKeepsStored ==
    [][ \A s \in services : \A t \in services' :
          (saveStatus' = "ok" /\ t.id = s.id /\ UpdatesOf(lastBatch', s) # {}) =>
            LET U == UpdatesOf(lastBatch', s)
                lastU == lastBatch'[CHOOSE i \in U : \A j \in U : j <= i]
                none(f(_)) == \A i \in U : NoValue(f(lastBatch'[i].analysis))
                st(a) == a.service_type
                ve(a) == a.vendor
                pr(a) == a.product
                vr(a) == a.version
                co(a) == a.confidence
                tg(a) == a.tags
            IN /\ none(st) => t.service_type = s.service_type
               /\ none(ve) => t.vendor = s.vendor
               /\ none(pr) => t.product = s.product
               /\ none(vr) => t.version = s.version
               /\ none(co) => t.confidence = s.confidence
               /\ none(tg) => t.tags = s.tags
               /\ t.last_seen = lastU.timestamp
               /\ t.state = lastU.status
               /\ t.banner = (IF lastU.banner = NULL THEN "" ELSE lastU.banner)
      ]_vars

(***************************************************************************)
(* prune_old_data(history_days, service_days)                              *)
(***************************************************************************)
\* datetime.timedelta(days=...) in hours
HoursPerDay == 24

\* (mutant) rows exactly at the cutoff are deleted as well
PruneInclusive(history_days, service_days) ==
    LET cutoff_history == now - history_days * HoursPerDay
        cutoff_service == now - service_days * HoursPerDay
    IN /\ history' = SelectSeq(history, LAMBDA e : ~(e.timestamp <= cutoff_history))
       /\ services' = { s \in services : ~(s.last_seen <= cutoff_service) }
       /\ saveStatus' = "pruned"
       /\ UNCHANGED <<hosts, nextServiceId>>

\* prune_old_data: the two DELETE statements and their commit
PruneEffect(history_days, service_days) ==
    LET cutoff_history == now - history_days * HoursPerDay
        cutoff_service == now - service_days * HoursPerDay
    IN /\ history' = SelectSeq(history, LAMBDA e : ~(e.timestamp < cutoff_history))
       /\ services' = { s \in services : ~(s.last_seen < cutoff_service) }
       /\ saveStatus' = "pruned"
       /\ UNCHANGED <<hosts, nextServiceId>>

PruneOldData(history_days, service_days) ==
    /\ PruneEffect(history_days, service_days)
    /\ UNCHANGED <<obsLog, lastBatch, passed, now, schedVars, scanVars, mainVars, libVars, taskVars>>

\* a day passes
StoreTick ==
    /\ now + HoursPerDay <= MaxDays * HoursPerDay
    /\ now' = now + HoursPerDay
    /\ UNCHANGED <<storeVars, schedVars, scanVars, mainVars, libVars, taskVars>>

\* observations of the store specification: stamped now or at time 0
StoreObs(t) ==
    { MkObs(k, st, "SSH-2.0-A", AnUnknown, ts) : k \in Keys, st \in Statuses, ts \in {0, t} }

NextStore ==
    \/ \E batch \in BatchesOf(StoreObs(now)) : SaveObservationBatch(batch)
    \/ \E h \in 0..1, sd \in 0..1 : PruneOldData(h, sd)
    \/ StoreTick

SpecStore == InitStore /\ [][NextStore]_vars

(***************************************************************************)
(* Retention: saves and prune calls whose arguments are on record.         *)
(***************************************************************************)
\* the values of history_days and of service_days
PruneDays == 0..1

\* prune_old_data(history_days, service_days), the call put on record
PruneCall(history_days, service_days) ==
    /\ PruneEffect(history_days, service_days)
    /\ op' = [name |-> "prune", history_days |-> history_days,
               service_days |-> service_days]
    /\ UNCHANGED <<obsLog, lastBatch, passed, now, chunks, lastMaintenance, pc, cand,
                   cur, ret, scanVars, mainVars, libVars, taskVars>>

\* observations saved between prunes: one service that changes state,
\* stamped now or at time 0, and one that is seen now
PruneObs(t) ==
    { MkObs(<<"10.0.0.1", 22, "tcp">>, st, "SSH-2.0-A", AnUnknown, ts) :
        st \in Statuses, ts \in {0, t} }
    \cup { MkObs(<<"10.0.0.1", 80, "tcp">>, "open", "SSH-2.0-A", AnUnknown, t) }

NextPrune ==
    \/ \E batch \in BatchesOf(PruneObs(now)) : SaveObservationBatch(batch)
    \/ \E h \in PruneDays, sd \in PruneDays : PruneCall(h, sd)
    \/ StoreTick

SpecPrune == InitStore /\ [][NextPrune]_vars

\* the rows of history that are not older than the cutoff
KeptEvents(cutoff) == { i \in 1..Len(history) : history[i].timestamp >= cutoff }

\* C14: after prune(h, s) no history row is older than now - h days and no
\* service has last_seen older than now - s days, and every row that is
\* not older than its cutoff is kept.
C14_PruneRetention ==
    [][ (op'.name = "prune" /\ passed' = passed /\ now' = now) =>
          LET cutoff_history == now - op'.history_days * HoursPerDay
              cutoff_service == now - op'.service_days * HoursPerDay
          IN /\ \A i \in 1..Len(history') : history'[i].timestamp >= cutoff_history
             /\ \A s \in services' : s.last_seen >= cutoff_service
             /\ \A s \in services : s.last_seen >= cutoff_service => s \in services'
             /\ Len(history') = Cardinality(KeptEvents(cutoff_history))
             /\ \A i \in KeptEvents(cutoff_history) :
                    \E j \in 1..Len(history') : history'[j] = history[i]
      ]_vars

\* a prune that kept today's history row and service and deleted a service
\* last seen before the cutoff
C14_Witness ==
    /\ op.name = "prune"
    /\ saveStatus = "pruned"
    /\ now > 0
    /\ op.history_days = 0
    /\ op.service_days = 0
    /\ history # <<>>
    /\ services # {}
    /\ Cardinality(services) < nextServiceId - 1

(***************************************************************************)
(* The store when a statement of a save can fail, checked under SpecFault. *)
(***************************************************************************)
NextFault ==
    \/ \E batch \in BatchesOf(SaveObs) : SaveObservationBatch(batch)
    \/ \E batch \in BatchesOf(SaveObs) : SaveObservationBatchHostError(batch)

SpecFault == InitStore /\ [][NextFault]_vars

\* C13: a save_observation_batch call either makes all of the batch's host
\* upserts, service inserts, service updates and history appends visible,
\* or leaves the store unchanged.
C13_AllOrNothing ==
    [][ passed' # passed =>
          \/ /\ hosts' = UpsertHostBatch(hosts, lastBatch')
             /\ services' = UpdateAll(InsertAll(services, ToInsert(lastBatch'), nextServiceId),
                                      ToUpdate(lastBatch'))
             /\ history' = history \o HistoryInserts(lastBatch')
          \/ UNCHANGED <<hosts, services, history, nextServiceId>>
      ]_vars

(***************************************************************************)
(* Claims about the store under saves and prunes, checked under SpecStore. *)
(***************************************************************************)
\* C2: no two rows of services share (ip, port, protocol).
C2_UniqueServiceKey ==
    \A s, t \in services : KeyOf(s) = KeyOf(t) => s = t

\* a batch that names a new key twice was rejected, after a prune had
\* removed a stored service
C2_Witness ==
    /\ saveStatus = "IntegrityError"
    /\ RepeatsKey(lastBatch)
    /\ Cardinality(services) < nextServiceId - 1

\* C11: first_seen <= last_seen in every row of hosts and of services.
C11_FirstSeenBeforeLastSeen ==
    /\ \A h \in hosts : h.first_seen <= h.last_seen
    /\ \A s \in services : s.first_seen <= s.last_seen

\* C12: every row of history references a row of services that exists.
C12_HistoryHasService ==
    \A i \in 1..Len(history) : \E s \in services : s.id = history[i].service_id

(***************************************************************************)
(* Scheduler state in the store (db_manager.py, "Scheduler DB Ops")        *)
(***************************************************************************)
MAX_RETRIES == 3

\* promote_ignored_chunks stops at this priority
PriorityCeiling == 10

\* get_stale_chunks: the priority that separates the two classes
HighPriority == 5

\* maintain_queue_health: at most one pass per hour; thresholds in hours
MaintenanceInterval == 1

PromoteAge == 48

StaleHighAge == 24

StaleLowAge == 168

StaleLimit == 50

ChunkIds(ch) == 1..Len(ch)

\* Python truthiness of the error argument: None and "" are false
Truthy(error) == error # NULL /\ error # ""

\* create_scan_chunk
NewChunk(priority, t) ==
    [status |-> "QUEUED", priority |-> priority, retry_count |-> 0,
     last_error |-> NULL, created_at |-> t, updated_at |-> t]

\* (mutant) chunks left SCANNING are candidates as well
QueueWithScanning(ch) ==
    { c \in ChunkIds(ch) : ch[c].status \in {"QUEUED", "RETRYING", "SCANNING"} }

\* WHERE status IN ('QUEUED', 'RETRYING')
Queue(ch) == { c \in ChunkIds(ch) : ch[c].status \in {"QUEUED", "RETRYING"} }

\* (mutant) ORDER BY created_at ASC alone
OldestFirst(ch) ==
    { c \in Queue(ch) : \A d \in Queue(ch) : ch[c].created_at <= ch[d].created_at }

\* db_manager.get_next_chunk: the rows ORDER BY priority DESC, created_at ASC
\* LIMIT 1 may return (rows equal in both columns come in any order)
Top(ch) ==
    { c \in Queue(ch) :
        \A d \in Queue(ch) :
            \/ ch[d].priority < ch[c].priority
            \/ ch[d].priority = ch[c].priority /\ ch[c].created_at <= ch[d].created_at }

\* update_chunk_status
UpdateChunkStatus(ch, id, status, error, t) ==
    IF Truthy(error)
    THEN [ch EXCEPT ![id] = [@ EXCEPT !.status = status, !.last_error = error,
                                      !.updated_at = t,
                                      !.retry_count = @ + 1]]
    ELSE [ch EXCEPT ![id] = [@ EXCEPT !.status = status, !.updated_at = t]]

\* (mutant) the UPDATE without `AND priority < 10`
PromoteUncapped(ch, age_hours, t) ==
    [c \in ChunkIds(ch) |->
        IF ch[c].status = "QUEUED" /\ ch[c].created_at < t - age_hours
        THEN [ch[c] EXCEPT !.priority = @ + 1, !.updated_at = t]
        ELSE ch[c]]

\* promote_ignored_chunks(age_hours)
PromoteIgnoredChunks(ch, age_hours, t) ==
    [c \in ChunkIds(ch) |->
        IF /\ ch[c].status = "QUEUED"
           /\ ch[c].created_at < t - age_hours
           /\ ch[c].priority < PriorityCeiling
        THEN [ch[c] EXCEPT !.priority = @ + 1, !.updated_at = t]
        ELSE ch[c]]

\* (mutant) get_stale_chunks without `status = 'COMPLETED'`
GetStaleAnyStatus(ch, limit, high_priority, min_age_hours, t) ==
    LET stale == { c \in ChunkIds(ch) :
                     /\ ch[c].updated_at < t - min_age_hours
                     /\ IF high_priority THEN ch[c].priority >= HighPriority
                                         ELSE ch[c].priority < HighPriority }
    IN IF Cardinality(stale) <= limit THEN stale
       ELSE CHOOSE T \in SUBSET stale :
                /\ Cardinality(T) = limit
                /\ \A a \in T, b \in stale \ T : ch[a].updated_at <= ch[b].updated_at

\* get_stale_chunks(limit, high_priority, min_age_hours): the ids returned
GetStaleChunks(ch, limit, high_priority, min_age_hours, t) ==
    LET stale == { c \in ChunkIds(ch) :
                     /\ ch[c].status = "COMPLETED"
                     /\ ch[c].updated_at < t - min_age_hours
                     /\ IF high_priority THEN ch[c].priority >= HighPriority
                                         ELSE ch[c].priority < HighPriority }
    IN IF Cardinality(stale) <= limit THEN stale
       ELSE CHOOSE T \in SUBSET stale :
                /\ Cardinality(T) = limit
                /\ \A a \in T, b \in stale \ T : ch[a].updated_at <= ch[b].updated_at

\* (mutant) the reset leaves retry_count as it was
ResetKeepsRetries(ch, ids, t) ==
    [c \in ChunkIds(ch) |->
        IF c \in ids
        THEN [ch[c] EXCEPT !.status = "QUEUED", !.updated_at = t]
        ELSE ch[c]]

\* reset_stale_chunk, for every id of the set
ResetStaleChunks(ch, ids, t) ==
    [c \in ChunkIds(ch) |->
        IF c \in ids
        THEN [ch[c] EXCEPT !.status = "QUEUED", !.updated_at = t, !.retry_count = 0]
        ELSE ch[c]]

(***************************************************************************)
(* scheduler.py                                                            *)
(***************************************************************************)
\* (mutant) no rate limit
AlwaysDue(last, t) == TRUE

\* the rate limit of maintain_queue_health
MaintenanceDue(last, t) == ~(t - last < MaintenanceInterval)

\* one maintenance pass: promotion, then the two rescans
MaintenancePass(ch, t) ==
    LET promoted == PromoteIgnoredChunks(ch, PromoteAge, t)
        high == ResetStaleChunks(promoted,
                    GetStaleChunks(promoted, StaleLimit, TRUE, StaleHighAge, t), t)
    IN ResetStaleChunks(high, GetStaleChunks(high, StaleLimit, FALSE, StaleLowAge, t), t)

\* maintain_queue_health: the table it leaves
MaintainQueueHealth(ch, last, t) ==
    IF MaintenanceDue(last, t) THEN MaintenancePass(ch, t) ELSE ch

\* (mutant) the retry limit tested with > instead of >=
RetriesAboveLimit(retries) == retries > MAX_RETRIES

\* "Enforce Retry Limit"
RetriesExhausted(retries) == retries >= MAX_RETRIES

\* (mutant) get_next_chunk that returns None after marking a chunk FAILED
RECURSIVE NextChunkNoRetry(_, _)
NextChunkNoRetry(ch, t) ==
    IF Top(ch) = {} THEN { [chunks |-> ch, ret |-> 0] }
    ELSE UNION { IF RetriesExhausted(ch[c].retry_count)
                 THEN { [chunks |-> UpdateChunkStatus(ch, c, "FAILED", "Max Retries Exceeded", t),
                         ret |-> 0] }
                 ELSE { [chunks |-> UpdateChunkStatus(ch, c, "SCANNING", NULL, t), ret |-> c] }
               : c \in Top(ch) }

\* get_next_chunk after its maintenance call, run without interruption: the
\* tables it may leave and the chunk id it returns (0 for None).  The
\* recursive call finds maintenance not due.
RECURSIVE NextChunkOutcomes(_, _)
NextChunkOutcomes(ch, t) ==
    IF Top(ch) = {} THEN { [chunks |-> ch, ret |-> 0] }
    ELSE UNION { IF RetriesExhausted(ch[c].retry_count)
                 THEN NextChunkOutcomes(
                          UpdateChunkStatus(ch, c, "FAILED", "Max Retries Exceeded", t), t)
                 ELSE { [chunks |-> UpdateChunkStatus(ch, c, "SCANNING", NULL, t), ret |-> c] }
               : c \in Top(ch) }

(***************************************************************************)
(* One engine (scanner.py main) driving the scheduler.  A scan is a single *)
(* step here; its workers are the subject of SpecScan.                     *)
(***************************************************************************)
\* priorities given to initialize_scan
Priorities == {1, 9}

\* str(e) of the exceptions a scan raises; str(asyncio.TimeoutError()) is ""
Errors == {"", "database is locked"}

\* the instants at which the scheduler is observed, in hours after the
\* start: within the maintenance interval, at it, and past the 24 and 48
\* hour thresholds
ClockInstants == { StartTime + h : h \in {0, 1, 49} }

\* initialize_scan of a network of at most 256 addresses: create_scan_chunk
Enqueue(priority) ==
    /\ Len(chunks) < MaxChunks
    /\ chunks' = Append(chunks, NewChunk(priority, now))
    /\ op' = [name |-> "enqueue"]
    /\ UNCHANGED <<lastMaintenance, pc, cand, cur, ret, now, storeVars, scanVars, mainVars, libVars, taskVars>>

\* time passes
Tick(t) ==
    /\ t > now
    /\ now' = t
    /\ op' = [name |-> "tick"]
    /\ UNCHANGED <<chunks, lastMaintenance, pc, cand, cur, ret, storeVars, scanVars, mainVars, libVars, taskVars>>

\* (mutant) an empty queue ends the loop in either mode
ExitOnNone(loop) == "exited"

\* main, when get_next_chunk returned None: `if not args.loop: break`,
\* else sleep 5 seconds and go to the top of the loop
AfterNone(loop) == IF loop THEN "idle" ELSE "exited"

\* scheduler.get_next_chunk: maintain_queue_health, then the retry loop over
\* db_manager.get_next_chunk; and where main stands when it has returned
get_next_chunk(e) ==
    /\ \E o \in NextChunkOutcomes(MaintainQueueHealth(chunks, lastMaintenance[e], now), now) :
          /\ chunks' = o.chunks
          /\ ret' = [ret EXCEPT ![e] = o.ret]
          /\ cur' = [cur EXCEPT ![e] = o.ret]
          /\ pc' = [pc EXCEPT ![e] = IF o.ret = 0 THEN AfterNone(loopMode) ELSE "scanning"]
    /\ lastMaintenance' = [lastMaintenance EXCEPT ![e] =
                               IF MaintenanceDue(@, now) THEN now ELSE @]
    /\ op' = [name |-> "next_chunk", engine |-> e,
               maintained |-> MaintenanceDue(lastMaintenance[e], now),
               failed |-> { c \in ChunkIds(chunks) :
                              chunks[c].status # "FAILED" /\ chunks'[c].status = "FAILED" }]
    /\ UNCHANGED <<cand, now>>

\* scheduler.get_next_chunk, called from the main loop
NextChunk(e) ==
    /\ pc[e] = "idle"
    /\ get_next_chunk(e)
    /\ UNCHANGED <<storeVars, scanVars, mainVars, libVars, taskVars>>

\* scheduler.complete_chunk(chunk_id), after which the main loop goes round
complete_chunk(e) ==
    /\ pc[e] = "scanning"
    /\ chunks' = UpdateChunkStatus(chunks, cur[e], "COMPLETED", NULL, now)
    /\ pc' = [pc EXCEPT ![e] = "idle"]
    /\ cur' = [cur EXCEPT ![e] = 0]
    /\ op' = [name |-> "complete", engine |-> e, id |-> cur[e]]
    /\ UNCHANGED <<lastMaintenance, cand, ret, now>>

\* (mutant) the failure is logged only and the row keeps its status
fail_chunk_unrecorded(e, error) ==
    /\ pc[e] = "scanning"
    /\ pc' = [pc EXCEPT ![e] = "idle"]
    /\ cur' = [cur EXCEPT ![e] = 0]
    /\ op' = [name |-> "fail", engine |-> e, id |-> cur[e], error |-> error]
    /\ UNCHANGED <<chunks, lastMaintenance, cand, ret, now>>

\* scheduler.fail_chunk(chunk_id, error), after which the main loop goes round
fail_chunk(e, error) ==
    /\ pc[e] = "scanning"
    /\ chunks' = UpdateChunkStatus(chunks, cur[e], "RETRYING", error, now)
    /\ pc' = [pc EXCEPT ![e] = "idle"]
    /\ cur' = [cur EXCEPT ![e] = 0]
    /\ op' = [name |-> "fail", engine |-> e, id |-> cur[e], error |-> error]
    /\ UNCHANGED <<lastMaintenance, cand, ret, now>>

\* scan_chunk returned: its last statement is scheduler.complete_chunk
CompleteChunk(e) == complete_chunk(e) /\ UNCHANGED <<storeVars, scanVars, mainVars, libVars, taskVars>>

\* scan_chunk raised e: scheduler.fail_chunk(chunk_id, str(e))
FailChunk(e, error) == fail_chunk(e, error) /\ UNCHANGED <<storeVars, scanVars, mainVars, libVars, taskVars>>

Init ==
    /\ chunksProcessed = 0
    /\ loopMode = TRUE
    /\ NoCall
    /\ EmptyStore
    /\ EmptyQueue
    /\ NoScan
    /\ scanInput = DefaultInput
    /\ now = StartTime

Next ==
    \/ \E p \in Priorities : Enqueue(p)
    \/ \E t \in ClockInstants : Tick(t)
    \/ NextChunk(1)
    \/ CompleteChunk(1)
    \/ \E error \in Errors : FailChunk(1, error)

Spec == Init /\ [][Next]_vars

(***************************************************************************)
(* Claims about the scheduler, checked under Spec.                         *)
(***************************************************************************)
\* the chunks next_chunk may hand out: QUEUED or RETRYING, retries left
Eligible(ch) == { c \in Queue(ch) : ch[c].retry_count < MAX_RETRIES }

\* chunk c does not come after chunk d: higher priority, or the same
\* priority and not younger
NotAfter(ch, c, d) ==
    \/ ch[d].priority < ch[c].priority
    \/ ch[d].priority = ch[c].priority /\ ch[c].created_at <= ch[d].created_at

C4_RetryCountBounded ==
    \A c \in ChunkIds(chunks) :
        chunks[c].status # "FAILED" => chunks[c].retry_count <= MAX_RETRIES

\* one chunk waits with its retries used up, another was marked FAILED
C4_Witness ==
    /\ \E c \in ChunkIds(chunks) :
          chunks[c].status = "RETRYING" /\ chunks[c].retry_count = MAX_RETRIES
    /\ \E c \in ChunkIds(chunks) :
          chunks[c].status = "FAILED" /\ chunks[c].retry_count > MAX_RETRIES

\* C5: next_chunk returns no chunk with retry_count >= MAX_RETRIES; only
\* chunks with retry_count >= MAX_RETRIES become FAILED in the call; a chunk
\* with retry_count >= MAX_RETRIES that is still queued after the call comes
\* after the returned chunk; and the call returns None only when no chunk is
\* left QUEUED or RETRYING.
C5_ExhaustedChunksFail ==
    [][ op'.name = "next_chunk" =>
          /\ ret'[1] # 0 =>
                /\ chunks'[ret'[1]].retry_count < MAX_RETRIES
                /\ chunks'[ret'[1]].status = "SCANNING"
                /\ \A d \in Queue(chunks') \ Eligible(chunks') :
                      NotAfter(chunks', ret'[1], d)
          /\ \A c \in ChunkIds(chunks) :
                (chunks[c].status # "FAILED" /\ chunks'[c].status = "FAILED")
                    => chunks[c].retry_count >= MAX_RETRIES
          /\ ret'[1] = 0 => Queue(chunks') = {}
      ]_vars

\* a call marked a chunk FAILED and went on to return another one
C5_Witness ==
    /\ op.name = "next_chunk"
    /\ op.failed # {}
    /\ ret[1] # 0
    /\ chunks[ret[1]].status = "SCANNING"

\* C6: fail(id, error) leaves the chunk RETRYING with retry_count one
\* greater than before and the error recorded, for every error string.
C6_FailCountsARetry ==
    [][ op'.name = "fail" =>
          /\ chunks'[op'.id].status = "RETRYING"
          /\ chunks'[op'.id].retry_count = chunks[op'.id].retry_count + 1
          /\ chunks'[op'.id].last_error = op'.error
      ]_vars

(***************************************************************************)
(* Two engine processes on one store.  Each statement of                   *)
(* scheduler.get_next_chunk that awaits the store is a step of its own:    *)
(* the read of the candidate, and the update of its status.                *)
(***************************************************************************)
\* maintain_queue_health and db_manager.get_next_chunk: the candidate is read
SelectCandidate(e) ==
    /\ pc[e] = "idle"
    /\ LET ch == MaintainQueueHealth(chunks, lastMaintenance[e], now)
       IN /\ chunks' = ch
          /\ IF Top(ch) = {}
             THEN /\ ret' = [ret EXCEPT ![e] = 0]
                  /\ UNCHANGED <<pc, cand>>
             ELSE /\ \E c \in Top(ch) :
                        cand' = [cand EXCEPT ![e] = [id |-> c, retries |-> ch[c].retry_count]]
                  /\ pc' = [pc EXCEPT ![e] = "selected"]
                  /\ UNCHANGED ret
    /\ lastMaintenance' = [lastMaintenance EXCEPT ![e] =
                               IF MaintenanceDue(@, now) THEN now ELSE @]
    /\ op' = [name |-> "select", engine |-> e]
    /\ UNCHANGED <<cur, now, storeVars, scanVars, mainVars, libVars, taskVars>>

\* the candidate is marked FAILED (and the call starts over) or SCANNING
\* (and the call returns it)
MarkCandidate(e) ==
    /\ pc[e] = "selected"
    /\ IF RetriesExhausted(cand[e].retries)
       THEN /\ chunks' = UpdateChunkStatus(chunks, cand[e].id, "FAILED",
                                           "Max Retries Exceeded", now)
            /\ pc' = [pc EXCEPT ![e] = "idle"]
            /\ UNCHANGED <<cur, ret>>
       ELSE /\ chunks' = UpdateChunkStatus(chunks, cand[e].id, "SCANNING", NULL, now)
            /\ pc' = [pc EXCEPT ![e] = "scanning"]
            /\ cur' = [cur EXCEPT ![e] = cand[e].id]
            /\ ret' = [ret EXCEPT ![e] = cand[e].id]
    /\ cand' = [cand EXCEPT ![e] = <<>>]
    /\ op' = [name |-> "mark", engine |-> e]
    /\ UNCHANGED <<lastMaintenance, now, storeVars, scanVars, mainVars, libVars, taskVars>>

\* the two engines are started on one queue of equal-priority chunks
NextTwo ==
    \/ Enqueue(1)
    \/ Tick(StartTime + 49)
    \/ \E e \in Engines : SelectCandidate(e)
    \/ \E e \in Engines : MarkCandidate(e)
    \/ \E e \in Engines : CompleteChunk(e)
    \/ \E e \in Engines : FailChunk(e, "database is locked")

SpecTwo == Init /\ [][NextTwo]_vars

\* C8: no chunk is handed to two engines: a chunk that one engine holds
\* is not held by the other.
C8_OneOwner ==
    \A e, f \in Engines : (e # f /\ cur[e] # 0) => cur[e] # cur[f]

(***************************************************************************)
(* The scan engine (scanner.py): scan_chunk and its worker coroutines.     *)
(* A step is the code between two awaits that can suspend the coroutine.   *)
(***************************************************************************)
\* the addresses of a chunk's range and the ports of --ports
ScanAddresses == <<"10.0.0.1", "10.0.0.2">>

ScanPorts == <<22, 80>>

\* the queue as scan_chunk populates it: for each address, for each port
ScanItems ==
    [ i \in 1..(Len(ScanAddresses) * Len(ScanPorts)) |->
        << ScanAddresses[((i - 1) \div Len(ScanPorts)) + 1],
           ScanPorts[((i - 1) % Len(ScanPorts)) + 1] >> ]

\* the None that tells a worker to exit
None == <<>>

DecimalDigits == "0123456789"

\* the value of one decimal digit
DigitVal(ch) == (CHOOSE i \in 1..Len(DecimalDigits) : SubSeq(DecimalDigits, i, i) = ch) - 1

RECURSIVE Ip2LongFrom(_, _, _, _)
\* the dotted quad read from character i on: acc holds the octets before
\* the last dot, octet the digits since
Ip2LongFrom(ip, i, acc, octet) ==
    IF i > Len(ip) THEN acc * 256 + octet
    ELSE IF SubSeq(ip, i, i) = "."
    THEN Ip2LongFrom(ip, i + 1, acc * 256 + octet, 0)
    ELSE Ip2LongFrom(ip, i + 1, acc, octet * 10 + DigitVal(SubSeq(ip, i, i)))

\* ip2long(ip): struct.unpack("!L", socket.inet_aton(ip))[0]
ip2long(ip) == Ip2LongFrom(ip, 1, 0, 0)

\* long2ip(l): socket.inet_ntoa(struct.pack("!L", l))
long2ip(l) ==
    ToString(l \div 16777216) \o "." \o ToString((l \div 65536) % 256) \o "."
      \o ToString((l \div 256) % 256) \o "." \o ToString(l % 256)

\* (mutant) the outer loop runs over the ports, the inner one over the range
PopulatePortMajor(start_ip, end_ip, ports) ==
    LET start_long == ip2long(start_ip)
        end_long == ip2long(end_ip)
        n == IF end_long >= start_long THEN end_long - start_long + 1 ELSE 0
    IN [ i \in 1..(n * Len(ports)) |->
           << long2ip(start_long + ((i - 1) % n)), ports[((i - 1) \div n) + 1] >> ]

\* scan_chunk: the queue after `for l in range(start_long, end_long + 1):
\* for port in ports: queue.put_nowait((long2ip(l), port))`
Populate(start_ip, end_ip, ports) ==
    LET start_long == ip2long(start_ip)
        end_long == ip2long(end_ip)
        n == IF end_long >= start_long THEN end_long - start_long + 1 ELSE 0
    IN [ i \in 1..(n * Len(ports)) |->
           << long2ip(start_long + ((i - 1) \div Len(ports))),
              ports[((i - 1) % Len(ports)) + 1] >> ]

\* probe.run, to_dict and fingerprint.analyze: the observation of an item
ObsDict(item) ==
    MkObs(<<item[1], item[2], "tcp">>,
          IF item[2] = 22 THEN "open" ELSE "closed",
          IF item[2] = 22 THEN "SSH-2.0-A" ELSE NULL,
          AnUnknown, now)

Range(q) == { q[i] : i \in 1..Len(q) }

\* (mutant) buffer_lock never makes anybody wait
NeverLocked == TRUE

\* buffer_lock is free: nobody is inside an `async with buffer_lock` block
LockFree == scanpc # "flush" /\ \A w \in Workers : wpc[w] # "flush"

\* a save_observation_batch call that commits or raises IntegrityError
\* (SaveEffect), or that raises before it wrote anything
SaveOutcome(raises) ==
    IF raises
    THEN /\ saveStatus' = "OperationalError"
         /\ UNCHANGED <<hosts, services, history, nextServiceId>>
    ELSE SaveEffect(buffer)

\* (mutant) the handler's task_done comes on top of the loop body's
TaskDoneTwice(w) ==
    /\ unfinished' = unfinished - 2
    /\ wpc' = [wpc EXCEPT ![w] = "get"]
    /\ witem' = [witem EXCEPT ![w] = None]

\* queue.task_done() and back to the head of the worker's loop
TaskDone(w) ==
    /\ unfinished' = unfinished - 1
    /\ wpc' = [wpc EXCEPT ![w] = "get"]
    /\ witem' = [witem EXCEPT ![w] = None]

\* scan_chunk up to `await queue.join()`
ScanStart ==
    /\ pc[1] = "scanning"
    /\ scanpc = "none"
    /\ scanpc' = "join"
    /\ queue' = Populate(scanInput.start_ip, scanInput.end_ip, scanInput.ports)
    /\ unfinished' = Len(queue')
    /\ taken' = [item \in Range(queue') |-> 0]
    /\ probed' = [item \in Range(queue') |-> 0]
    /\ wpc' = [w \in Workers |-> "get"]
    /\ witem' = [w \in Workers |-> None]
    /\ buffer' = <<>>
    /\ produced' = {}
    /\ flushed' = {}
    /\ completed' = 0
    /\ scanId' = cur[1]
    /\ UNCHANGED <<now, storeVars, schedVars, mainVars, libVars, scanInput, handouts>>

\* worker: `item = await queue.get()`
WorkerGet(w) ==
    /\ scanpc \in {"join", "gather"}
    /\ wpc[w] = "get"
    /\ queue # <<>>
    /\ queue' = Tail(queue)
    /\ IF Head(queue) = None
       THEN /\ unfinished' = unfinished - 1
            /\ wpc' = [wpc EXCEPT ![w] = "exited"]
            /\ UNCHANGED <<witem, taken>>
       ELSE /\ wpc' = [wpc EXCEPT ![w] = "probe"]
            /\ witem' = [witem EXCEPT ![w] = Head(queue)]
            /\ taken' = [taken EXCEPT ![Head(queue)] = @ + 1]
            /\ UNCHANGED unfinished
    /\ UNCHANGED <<scanpc, buffer, produced, flushed, completed, scanId,
                   now, storeVars, schedVars, mainVars, libVars, scanInput, probed, handouts>>

\* worker: the probe returned and the observation was analysed
WorkerProbe(w) ==
    /\ wpc[w] = "probe"
    /\ wpc' = [wpc EXCEPT ![w] = "append"]
    /\ probed' = [probed EXCEPT ![witem[w]] = @ + 1]
    /\ UNCHANGED <<scanpc, queue, unfinished, witem, buffer, produced, flushed,
                   completed, scanId, now, storeVars, schedVars, mainVars, libVars,
                   scanInput, taken, handouts>>

\* worker: the probe or the analysis raised; the handler calls task_done
WorkerProbeRaises(w) ==
    /\ wpc[w] = "probe"
    /\ TaskDone(w)
    /\ probed' = [probed EXCEPT ![witem[w]] = @ + 1]
    /\ UNCHANGED <<scanpc, queue, buffer, produced, flushed, completed, scanId,
                   now, storeVars, schedVars, mainVars, libVars, scanInput, taken, handouts>>

\* worker: inside buffer_lock, append and test the length
WorkerAppend(w) ==
    /\ wpc[w] = "append"
    /\ LockFree
    /\ buffer' = Append(buffer, ObsDict(witem[w]))
    /\ produced' = produced \cup {ObsDict(witem[w])}
    /\ IF Len(buffer') >= BatchSize
       THEN /\ wpc' = [wpc EXCEPT ![w] = "flush"]
            /\ UNCHANGED <<unfinished, witem>>
       ELSE TaskDone(w)
    /\ UNCHANGED <<scanpc, queue, flushed, completed, scanId, now, storeVars, schedVars, mainVars, libVars, taskVars>>

\* (mutant) result_buffer keeps its entries after a save that returned
BufferKept(buf, status) == buf

\* worker: `result_buffer.clear()` is reached when the save call returned
AfterSave(buf, status) == IF status = "ok" THEN <<>> ELSE buf

\* worker: `await db_manager.save_observation_batch(result_buffer)`, then
\* clear and task_done; if the call raised, the handler's task_done only
WorkerFlush(w, raises) ==
    /\ wpc[w] = "flush"
    /\ SaveOutcome(raises)
    /\ buffer' = AfterSave(buffer, saveStatus')
    /\ flushed' = IF saveStatus' = "ok" THEN flushed \cup Range(buffer) ELSE flushed
    /\ TaskDone(w)
    /\ UNCHANGED <<scanpc, queue, produced, completed, scanId,
                   obsLog, lastBatch, passed, now, schedVars, mainVars, libVars, taskVars>>

\* scan_chunk: queue.join() returned; one None per worker, then gather
ScanJoined ==
    /\ scanpc = "join"
    /\ unfinished = 0
    /\ scanpc' = "gather"
    /\ queue' = queue \o [w \in Workers |-> None]
    /\ unfinished' = NumWorkers
    /\ UNCHANGED <<wpc, witem, buffer, produced, flushed, completed, scanId,
                   now, storeVars, schedVars, mainVars, libVars, taskVars>>

\* (mutant) the residual buffer is never flushed
ResidualDropped(buf) == FALSE

\* `if result_buffer:` before the final flush
FinalFlushNeeded(buf) == buf # <<>>

\* scan_chunk: gather returned; buffer_lock is taken for the final flush
ScanGathered ==
    /\ scanpc = "gather"
    /\ \A w \in Workers : wpc[w] = "exited"
    /\ scanpc' = IF FinalFlushNeeded(buffer) THEN "flush" ELSE "flushed"
    /\ UNCHANGED <<queue, unfinished, wpc, witem, buffer, produced, flushed,
                   completed, scanId, now, storeVars, schedVars, mainVars, libVars, taskVars>>

\* scan_chunk: the final save_observation_batch(result_buffer)
ScanFlush(raises) ==
    /\ scanpc = "flush"
    /\ SaveOutcome(raises)
    /\ scanpc' = IF saveStatus' = "ok" THEN "flushed" ELSE "raised"
    /\ flushed' = IF saveStatus' = "ok" THEN flushed \cup Range(buffer) ELSE flushed
    /\ UNCHANGED <<queue, unfinished, wpc, witem, buffer, produced, completed, scanId,
                   obsLog, lastBatch, passed, now, schedVars, mainVars, libVars, taskVars>>

\* scan_chunk: `await scheduler.complete_chunk(chunk_id)`, and main counts
\* the chunk and goes on
ScanComplete ==
    /\ scanpc = "flushed"
    /\ complete_chunk(1)
    /\ completed' = completed + 1
    /\ chunksProcessed' = chunksProcessed + 1
    /\ scanpc' = "none"
    /\ UNCHANGED <<queue, unfinished, wpc, witem, buffer, produced, flushed, scanId,
                   storeVars, loopMode, libVars, taskVars>>

\* str(e) of the exception a save call raised
ErrorText(status) ==
    IF status = "IntegrityError" THEN "UNIQUE constraint failed" ELSE "database is locked"

\* main: scan_chunk raised e, `await scheduler.fail_chunk(chunk_id, str(e))`
ScanFailed ==
    /\ scanpc = "raised"
    /\ fail_chunk(1, ErrorText(saveStatus))
    /\ scanpc' = "none"
    /\ UNCHANGED <<queue, unfinished, wpc, witem, buffer, produced, flushed, completed,
                   scanId, storeVars, mainVars, libVars, taskVars>>

\* main after initialize_scan(--target) of one chunk, before its loop
InitScan ==
    /\ chunksProcessed = 0
    /\ loopMode = TRUE
    /\ NoCall
    /\ EmptyStore
    /\ chunks = <<NewChunk(1, StartTime)>>
    /\ lastMaintenance = [e \in Engines |-> 0]
    /\ pc = [e \in Engines |-> "idle"]
    /\ cand = [e \in Engines |-> <<>>]
    /\ cur = [e \in Engines |-> 0]
    /\ ret = [e \in Engines |-> 0]
    /\ op = [name |-> "enqueue"]
    /\ NoScan
    /\ scanInput = DefaultInput
    /\ now = StartTime

NextScan ==
    \/ NextChunk(1)
    \/ ScanStart
    \/ \E w \in Workers : WorkerGet(w)
    \/ \E w \in Workers : WorkerProbe(w)
    \/ \E w \in Workers : WorkerProbeRaises(w)
    \/ \E w \in Workers : WorkerAppend(w)
    \/ \E w \in Workers : \E raises \in BOOLEAN : WorkerFlush(w, raises)
    \/ ScanJoined
    \/ ScanGathered
    \/ \E raises \in BOOLEAN : ScanFlush(raises)
    \/ ScanComplete
    \/ ScanFailed

SpecScan == InitScan /\ [][NextScan]_vars

(***************************************************************************)
(* Claims about the scan engine, checked under SpecScan.                   *)
(***************************************************************************)
\* the items of the chunk under scan that no worker has called task_done for
Unprocessed ==
    { it \in Range(ScanItems) :
        \/ it \in Range(queue)
        \/ \E w \in Workers : wpc[w] \in {"probe", "append", "flush"} /\ witem[w] = it }

\* C7: for a chunk handed out by next_chunk, complete(chunk_id) is called
\* at most once, and only when every (ip, port) item of the chunk has been
\* processed, every worker has exited and no observation of the scan is
\* left unflushed; and the chunk last scanned is never COMPLETED while an
\* observation of it is unflushed.
C7_CompleteAfterFlush ==
    /\ [][ op'.name = "complete" /\ chunks' # chunks =>
             /\ completed = 0 /\ completed' = 1
             /\ op'.id = scanId
             /\ Unprocessed = {}
             /\ \A w \in Workers : wpc[w] = "exited"
             /\ produced \subseteq flushed ]_vars
    /\ [](\A c \in ChunkIds(chunks) :
             (c = scanId /\ chunks[c].status = "COMPLETED") => produced \subseteq flushed)

\* a scan whose worker flush raised, whose residual buffer was committed by
\* the final flush, and which then completed its chunk
C7_Witness ==
    /\ op.name = "complete"
    /\ chunks[scanId].status = "COMPLETED"
    /\ Len(buffer) > BatchSize
    /\ produced = { ObsDict(it) : it \in Range(ScanItems) }
    /\ flushed = produced

(***************************************************************************)
(* scheduler.initialize_scan on IPv4 networks of any prefix length.        *)
(***************************************************************************)
CHUNK_SIZE == 256

\* rows of scan_state in the behaviours of SpecInit
MaxInitChunks == 5

\* prefix lengths of the --target networks
Prefixes == {22, 23, 24, 25, 32}

\* network.num_addresses of an IPv4 network with prefix length p
NumAddresses(p) == 2 ^ (32 - p)

\* (mutant) a large network is split into /25 subnets
ChunksOfHalves(p) == IF NumAddresses(p) <= CHUNK_SIZE THEN 1 ELSE 2 ^ (25 - p)

\* initialize_scan: the number of create_scan_chunk calls it makes, which
\* is one, or one for each /24 of network.subnets(new_prefix=24)
ChunksOf(p) ==
    IF NumAddresses(p) <= CHUNK_SIZE THEN 1
    ELSE IF p < 24 THEN 2 ^ (24 - p) ELSE 1

\* initialize_scan(target_cidr, priority)
InitializeScan(p, priority) ==
    /\ Len(chunks) + ChunksOf(p) <= MaxInitChunks
    /\ chunks' = chunks \o [i \in 1..ChunksOf(p) |-> NewChunk(priority, now)]
    /\ op' = [name |-> "initialize", prefix |-> p, priority |-> priority,
               queued_before |-> Queue(chunks)]
    /\ UNCHANGED <<lastMaintenance, pc, cand, cur, ret, now, storeVars, scanVars, mainVars, libVars, taskVars>>

NextInit ==
    \/ \E p \in Prefixes, priority \in Priorities : InitializeScan(p, priority)
    \/ NextChunk(1)
    \/ CompleteChunk(1)

SpecInit == Init /\ [][NextInit]_vars

MaintInstants == { StartTime + h : h \in {0, 49, 169} }

\* maintain_queue_health()
MaintainCall(e) ==
    /\ pc[e] = "idle"
    /\ chunks' = MaintainQueueHealth(chunks, lastMaintenance[e], now)
    /\ lastMaintenance' = [lastMaintenance EXCEPT ![e] =
                               IF MaintenanceDue(@, now) THEN now ELSE @]
    /\ op' = [name |-> "maintain", engine |-> e,
               maintained |-> MaintenanceDue(lastMaintenance[e], now)]
    /\ UNCHANGED <<pc, cand, cur, ret, now, storeVars, scanVars, mainVars, libVars, taskVars>>

\* main calls initialize_scan before its loop: chunks are created at start
EnqueueAtStart(p) == now = StartTime /\ Enqueue(p)

NextMaint ==
    \/ \E p \in Priorities : EnqueueAtStart(p)
    \/ \E t \in MaintInstants : Tick(t)
    \/ MaintainCall(1)
    \/ NextChunk(1)
    \/ CompleteChunk(1)
    \/ FailChunk(1, "database is locked")

SpecMaint == Init /\ [][NextMaint]_vars

\* the QUEUED chunks that promote_ignored_chunks(age_hours) selects at time t
Ignored(ch, age_hours, t) ==
    { c \in ChunkIds(ch) :
        /\ ch[c].status = "QUEUED"
        /\ ch[c].created_at < t - age_hours
        /\ ch[c].priority < PriorityCeiling }

\* C16: whenever maintain_queue_health() is called while a QUEUED chunk
\* exists that was created more than 48 hours ago and has priority below
\* 10, the chunk's priority is one higher when the call returns.
C16_CallPromotesIgnored ==
    [][ op'.name = "maintain" =>
          \A c \in Ignored(chunks, PromoteAge, now) :
              chunks'[c].priority = chunks[c].priority + 1
      ]_vars

\* the COMPLETED chunks of one priority class that are older than the
\* class threshold at time t
Stale(ch, high_priority, t) ==
    { c \in ChunkIds(ch) :
        /\ ch[c].status = "COMPLETED"
        /\ IF high_priority
           THEN ch[c].priority >= HighPriority /\ ch[c].updated_at < t - StaleHighAge
           ELSE ch[c].priority < HighPriority /\ ch[c].updated_at < t - StaleLowAge }

Min(a, b) == IF a <= b THEN a ELSE b

\* limits tried on get_stale_chunks
Limits == 0..2

\* C17: a maintenance pass leaves every COMPLETED chunk that is older than
\* the threshold of its priority class (24 hours from priority 5 on, 168
\* hours below it) QUEUED with retry_count 0, and every younger COMPLETED
\* chunk COMPLETED; and get_stale_chunks(limit) returns the stale chunks
\* of a class, or the limit oldest of them when there are more.
C17_StaleChunksRequeued ==
    /\ [][ (op'.name = "maintain" /\ op'.maintained) =>
             \A c \in ChunkIds(chunks) :
                 /\ (c \in Stale(chunks, TRUE, now) \cup Stale(chunks, FALSE, now)) =>
                        /\ chunks'[c].status = "QUEUED"
                        /\ chunks'[c].retry_count = 0
                 /\ (/\ chunks[c].status = "COMPLETED"
                     /\ c \notin Stale(chunks, TRUE, now) \cup Stale(chunks, FALSE, now)) =>
                        chunks'[c] = chunks[c] ]_vars
    /\ [](\A limit \in Limits, hp \in BOOLEAN :
             LET got == GetStaleChunks(chunks, limit, hp,
                                       IF hp THEN StaleHighAge ELSE StaleLowAge, now)
                 all == Stale(chunks, hp, now)
             IN /\ got \subseteq all
                /\ Cardinality(got) = Min(limit, Cardinality(all))
                /\ \A a \in got, b \in all \ got :
                       chunks[a].updated_at <= chunks[b].updated_at)

\* a pass requeued a low-priority chunk that had failed before it was
\* completed more than a week ago, and left a younger one COMPLETED
C17_Witness ==
    /\ op.name = "maintain"
    /\ op.maintained
    /\ \E c \in ChunkIds(chunks) :
          /\ chunks[c].status = "QUEUED"
          /\ chunks[c].priority < HighPriority
          /\ chunks[c].last_error # NULL
          /\ chunks[c].retry_count = 0
          /\ chunks[c].updated_at = now
          /\ chunks[c].created_at < now - StaleLowAge
    /\ \E c \in ChunkIds(chunks) :
          /\ chunks[c].status = "COMPLETED"
          /\ chunks[c].updated_at < now - StaleHighAge

\* ages tried on promote_ignored_chunks
PromoteAges == {0, 24, 48}

\* C18: promote_ignored(age_hours) never lowers a priority, raises it by at
\* most 1, never produces a priority above 10, and leaves the priority of
\* chunks that are not QUEUED or not older than age_hours as it was.
C18_PromotionMonotoneCapped ==
    \A age \in PromoteAges :
        LET after == PromoteIgnoredChunks(chunks, age, now)
        IN /\ Len(after) = Len(chunks)
           /\ \A c \in ChunkIds(chunks) :
                 /\ after[c].priority >= chunks[c].priority
                 /\ after[c].priority <= chunks[c].priority + 1
                 /\ after[c].priority # chunks[c].priority =>
                        after[c].priority <= PriorityCeiling
                 /\ (chunks[c].status # "QUEUED" \/ ~(chunks[c].created_at < now - age)) =>
                        after[c].priority = chunks[c].priority

\* a pass was made while a QUEUED chunk created more than 48 hours ago
\* stood at the ceiling, after an earlier pass had promoted it
C18_Witness ==
    /\ op.name = "maintain"
    /\ op.maintained
    /\ \E c \in ChunkIds(chunks) :
          /\ chunks[c].status = "QUEUED"
          /\ chunks[c].priority = PriorityCeiling
          /\ chunks[c].created_at < now - PromoteAge
          /\ chunks[c].updated_at < now

\* C19: a maintain_queue_health() call made less than an hour after the
\* last completed pass changes no chunk, and the first call after process
\* start performs a pass.
C19_MaintenanceRateLimited ==
    [][ op'.name = "maintain" =>
          /\ (lastMaintenance[1] # 0 /\ now - lastMaintenance[1] < MaintenanceInterval) =>
                 /\ chunks' = chunks
                 /\ lastMaintenance' = lastMaintenance
          /\ lastMaintenance[1] = 0 =>
                 /\ chunks' = MaintenancePass(chunks, now)
                 /\ lastMaintenance'[1] = now
      ]_vars

\* a call within the hour of the last pass left an ignored chunk as it was
C19_Witness ==
    /\ op.name = "maintain"
    /\ ~op.maintained
    /\ lastMaintenance[1] = now
    /\ Ignored(chunks, PromoteAge, now) # {}

(***************************************************************************)
(* The main loop of scanner.py with store and scheduler calls that raise.  *)
(* An exception that no handler of main catches leaves main, and           *)
(* asyncio.run(main()) ends the process.                                   *)
(***************************************************************************)
\* chunks processed between two prune_old_data calls of main (50 in the
\* source), scaled to the number of chunks of the model
PruneEvery == 2

\* the defaults of prune_old_data, which main calls without arguments
DefaultHistoryDays == 30

DefaultServiceDays == 90

\* main: `chunks_processed_count > 0 and chunks_processed_count % 50 == 0`
PruneDue(count) == count > 0 /\ count % PruneEvery = 0

\* main, top of the loop: the prune is due and prune_old_data() returns
LoopPrune(e) ==
    /\ pc[e] = "idle"
    /\ PruneDue(chunksProcessed)
    /\ PruneEffect(DefaultHistoryDays, DefaultServiceDays)
    /\ pc' = [pc EXCEPT ![e] = "fetch"]
    /\ op' = [name |-> "prune", history_days |-> DefaultHistoryDays,
               service_days |-> DefaultServiceDays]
    /\ UNCHANGED <<obsLog, lastBatch, passed, now, chunks, lastMaintenance, cand,
                   cur, ret, scanVars, mainVars, libVars, taskVars>>

\* main, top of the loop: the prune is due and prune_old_data() raises;
\* the call stands outside every try of main
LoopPruneRaises(e) ==
    /\ pc[e] = "idle"
    /\ PruneDue(chunksProcessed)
    /\ pc' = [pc EXCEPT ![e] = "terminated"]
    /\ op' = [name |-> "raised", engine |-> e, call |-> "prune_old_data"]
    /\ UNCHANGED <<chunks, lastMaintenance, cand, cur, ret, now, storeVars, scanVars,
                   mainVars, libVars, taskVars>>

\* main, top of the loop: no prune is due
LoopNoPrune(e) ==
    /\ pc[e] = "idle"
    /\ ~PruneDue(chunksProcessed)
    /\ pc' = [pc EXCEPT ![e] = "fetch"]
    /\ op' = [name |-> "no_prune", engine |-> e]
    /\ UNCHANGED <<chunks, lastMaintenance, cand, cur, ret, now, storeVars, scanVars,
                   mainVars, libVars, taskVars>>

\* main: `chunk = await scheduler.get_next_chunk()` returns; with no chunk
\* (--loop) main sleeps and goes to the top of the loop
LoopNextChunk(e) ==
    /\ pc[e] = "fetch"
    /\ get_next_chunk(e)
    /\ UNCHANGED <<storeVars, scanVars, mainVars, libVars, taskVars>>

\* main: scheduler.get_next_chunk() raises, either in maintain_queue_health
\* before anything is committed (maintained = FALSE) or in
\* db_manager.get_next_chunk after the maintenance pass; the call stands
\* outside every try of main
LoopNextChunkRaises(e) ==
    /\ pc[e] = "fetch"
    /\ \E maintained \in BOOLEAN :
          /\ chunks' = IF maintained
                       THEN MaintainQueueHealth(chunks, lastMaintenance[e], now)
                       ELSE chunks
          /\ lastMaintenance' = [lastMaintenance EXCEPT ![e] =
                                     IF maintained /\ MaintenanceDue(@, now) THEN now ELSE @]
    /\ pc' = [pc EXCEPT ![e] = "terminated"]
    /\ op' = [name |-> "raised", engine |-> e, call |-> "get_next_chunk"]
    /\ UNCHANGED <<cand, cur, ret, now, storeVars, scanVars, mainVars, libVars, taskVars>>

\* main: scan_chunk returned after its complete_chunk call,
\* `chunks_processed_count += 1`
ScanReturned(e) ==
    /\ complete_chunk(e)
    /\ chunksProcessed' = chunksProcessed + 1
    /\ UNCHANGED <<storeVars, scanVars, loopMode, libVars, taskVars>>

\* main: scan_chunk raised (a flush or complete_chunk failed in it) and the
\* fail_chunk call of the handler raises as well; nothing catches it
LoopFailChunkRaises(e) ==
    /\ pc[e] = "scanning"
    /\ pc' = [pc EXCEPT ![e] = "terminated"]
    /\ op' = [name |-> "raised", engine |-> e, call |-> "fail_chunk"]
    /\ UNCHANGED <<chunks, lastMaintenance, cand, cur, ret, now, storeVars, scanVars,
                   mainVars, libVars, taskVars>>

NextLoop ==
    \/ \E p \in Priorities : EnqueueAtStart(p)
    \/ LoopPrune(1)
    \/ LoopPruneRaises(1)
    \/ LoopNoPrune(1)
    \/ LoopNextChunk(1)
    \/ LoopNextChunkRaises(1)
    \/ ScanReturned(1)
    \/ FailChunk(1, "database is locked")
    \/ LoopFailChunkRaises(1)

SpecLoop == Init /\ [][NextLoop]_vars

\* C20: after startup no failure of a store or scheduler operation in the
\* main loop ends the engine: the engine process is never terminated by an
\* exception of next_chunk, maintenance, prune, fail, complete or a flush.
C20_LoopSurvives == pc[1] # "terminated"

\* C21: whenever scan_chunk raises for the chunk next_chunk handed out, the
\* handler's fail(chunk_id, err) call leaves the chunk RETRYING and the
\* outer loop is back at its top, ready to request the next chunk.
C21_ScanFailureRetries ==
    [][ (pc[1] = "scanning" /\ op'.name \in {"fail", "raised"}) =>
          /\ chunks'[cur[1]].status = "RETRYING"
          /\ pc'[1] = "idle"
      ]_vars

(***************************************************************************)
(* An interrupt (SIGINT) while scan_chunk runs.  asyncio.run cancels the   *)
(* main task and then every remaining task: CancelledError and             *)
(* KeyboardInterrupt are not Exceptions, so neither the worker's handler   *)
(* nor main's handler catches them, and no code between the interrupt and  *)
(* the `except KeyboardInterrupt` of the script flushes result_buffer.     *)
(***************************************************************************)
\* the interrupt arrives while main awaits in scan_chunk; the workers that
\* have not exited are cancelled where they stand
Interrupt ==
    /\ pc[1] = "scanning"
    /\ scanpc \in {"join", "gather", "flush"}
    /\ scanpc' = "cancelled"
    /\ wpc' = [w \in Workers |-> IF wpc[w] = "exited" THEN "exited" ELSE "cancelled"]
    /\ pc' = [pc EXCEPT ![1] = "interrupted"]
    /\ op' = [name |-> "interrupt",
               in_flight |-> { w \in Workers : wpc[w] = "probe" }]
    /\ UNCHANGED <<queue, unfinished, witem, buffer, produced, flushed, completed, scanId,
                   now, storeVars, chunks, lastMaintenance, cand, cur, ret, mainVars, libVars, taskVars>>

NextInterrupt ==
    \/ NextScan
    \/ Interrupt

SpecInterrupt == InitScan /\ [][NextInterrupt]_vars

\* C22: when the engine is interrupted while a chunk is being scanned, the
\* probes in flight finish and every observation appended to the batch
\* buffer has been flushed to the store when the process exits.
C22_InterruptFlushes ==
    scanpc = "cancelled" =>
        /\ op.in_flight = {}
        /\ produced \subseteq flushed

(***************************************************************************)
(* An engine that stops while it scans a chunk, and a new engine process   *)
(* started on the same database.                                           *)
(***************************************************************************)
\* the process ends (interrupt, kill or an uncaught exception) while
\* scan_chunk runs: nothing is written to scan_state
Stop(e) ==
    /\ pc[e] = "scanning"
    /\ pc' = [pc EXCEPT ![e] = "stopped"]
    /\ op' = [name |-> "stop", engine |-> e, id |-> cur[e]]
    /\ UNCHANGED <<chunks, lastMaintenance, cand, cur, ret, now, storeVars, scanVars,
                   mainVars, libVars, taskVars>>

\* a new process: the module globals and main's locals start afresh,
\* init_db creates no table that exists and touches no row
Restart(e) ==
    /\ pc[e] = "stopped"
    /\ pc' = [pc EXCEPT ![e] = "idle"]
    /\ lastMaintenance' = [lastMaintenance EXCEPT ![e] = 0]
    /\ cand' = [cand EXCEPT ![e] = <<>>]
    /\ cur' = [cur EXCEPT ![e] = 0]
    /\ ret' = [ret EXCEPT ![e] = 0]
    /\ chunksProcessed' = 0
    /\ op' = [name |-> "restart", engine |-> e]
    /\ UNCHANGED <<chunks, now, storeVars, scanVars, loopMode, libVars, taskVars>>

NextRestart ==
    \/ \E p \in Priorities : EnqueueAtStart(p)
    \/ \E t \in MaintInstants : Tick(t)
    \/ MaintainCall(1)
    \/ NextChunk(1)
    \/ CompleteChunk(1)
    \/ Stop(1)
    \/ Restart(1)

SpecRestart == Init /\ [][NextRestart]_vars

\* the chunks left SCANNING by an engine process that has stopped
Orphans ==
    { c \in ChunkIds(chunks) :
        chunks[c].status = "SCANNING" /\ (pc[1] # "scanning" \/ cur[1] # c) }

\* C23: a chunk that is SCANNING when the engine stops is SCANNING after
\* the restart, and no later next_chunk call returns it and no next_chunk
\* call or maintenance pass changes its row.
C23_OrphanStaysScanning ==
    [][ /\ op'.name \in {"stop", "restart"} => chunks' = chunks
        /\ \A c \in Orphans :
              /\ chunks'[c] = chunks[c]
              /\ op'.name = "next_chunk" => ret'[1] # c
      ]_vars

\* after a restart and 169 hours, a maintenance pass ran in a next_chunk
\* call that found nothing to hand out although an orphan is in the table
C23_Witness ==
    /\ op.name = "next_chunk"
    /\ op.maintained
    /\ ret[1] = 0
    /\ \E c \in Orphans : chunks[c].updated_at < now - StaleLowAge

(***************************************************************************)
(* The two run modes of main: one-shot, and continuous with --loop.        *)
(***************************************************************************)
\* main started in either mode on an empty scan_state table
InitMode ==
    /\ chunksProcessed = 0
    /\ loopMode \in BOOLEAN
    /\ NoCall
    /\ EmptyStore
    /\ EmptyQueue
    /\ NoScan
    /\ scanInput = DefaultInput
    /\ now = StartTime

NextMode ==
    \/ \E p \in Priorities : Enqueue(p)
    \/ NextChunk(1)
    \/ CompleteChunk(1)
    \/ FailChunk(1, "database is locked")

\* main is a coroutine that the event loop keeps running: a get_next_chunk
\* call that is due is made, and a scan_chunk call returns or raises; the
\* table holds at most MaxChunks rows, so chunks are enqueued finitely often
SpecMode == InitMode /\ [][NextMode]_vars /\ WF_vars(NextMode)

BannerTexts ==
    { <<>>,
      <<"Apache">>,
      <<"Apache", "/", "2.4.41", "(Ubuntu)">>,
      <<"HTTP/", "1.1", "200", "OK", "Server:", "Apache", "/", "2.4.41">>,
      <<"HTTP/", "1.1", "200", "OK", "Server:", "nginx">>,
      <<"SSH-2.0-", "OpenSSH", "_", "8.2p1">>,
      <<"RFB", "003.008">>,
      <<"220", "ProFTPD", "FTP", "Server">> }

\* the values of headers.get("server"): no such header, and two servers
ServerHeaders ==
    { <<>>, <<"Apache", "/", "2.4.41">>, <<"Caddy">> }

Bodies ==
    { <<>>, <<"<html>", "<title>", "Home", "Assistant", "</title>">> }

Observations ==
    { [banner |-> b, server |-> h, body |-> d] :
        b \in BannerTexts, h \in ServerHeaders, d \in Bodies }

\* analysis_result = fingerprint.analyze(obs_dict)
Analyze(ob) ==
    /\ observation' = ob
    /\ LET a == analyze(ob, lastGroups)
       IN /\ analysis' = a.result
          /\ lastGroups' = a.groups
    /\ UNCHANGED <<now, storeVars, schedVars, scanVars, mainVars, probeVars, taskVars>>

NextAnalyze == \E ob \in Observations : Analyze(ob)

SpecAnalyze == Init /\ [][NextAnalyze]_vars

\* the evidence entries of rule r that match the observation
Matching(r, ob) ==
    { k \in 1..Len(RULES[r].evidence) :
        check(LocationText(ob, RULES[r].evidence[k].location),
              LocationPattern(RULES[r].evidence[k])).ok }

\* the sum of the weights of a set of evidence entries of rule r
RECURSIVE WeightSum(_, _)
WeightSum(r, ks) ==
    IF ks = {} THEN 0
    ELSE LET k == CHOOSE x \in ks : TRUE
         IN RULES[r].evidence[k].weight + WeightSum(r, ks \ {k})

\* the capped sum of the matching evidence weights of rule r
CappedSum(r, ob) ==
    IF WeightSum(r, Matching(r, ob)) > 100 THEN 100 ELSE WeightSum(r, Matching(r, ob))

\* the earliest-declared rule among those with the greatest capped sum
Winner(ob) ==
    CHOOSE r \in RuleIds :
        /\ \A q \in RuleIds : CappedSum(q, ob) <= CappedSum(r, ob)
        /\ \A q \in RuleIds : q < r => CappedSum(q, ob) < CappedSum(r, ob)

\* C25: analyze returns a confidence in 0..100 and the identity of the
\* rule with the greatest capped sum of matching evidence weights, the
\* earliest-declared rule winning ties; when no rule has a positive sum the
\* result is unknown, unknown, unknown with confidence 0.
C25_BestRuleWins ==
    analysis.service_type # NULL =>
        /\ analysis.confidence \in 0..100
        /\ IF \A r \in RuleIds : CappedSum(r, observation) = 0
           THEN /\ analysis.service_type = "unknown"
                /\ analysis.vendor = "unknown"
                /\ analysis.product = "unknown"
                /\ analysis.confidence = 0
           ELSE /\ analysis.service_type = RULES[Winner(observation)].type
                /\ analysis.vendor = RULES[Winner(observation)].vendor
                /\ analysis.product = RULES[Winner(observation)].product
                /\ analysis.confidence = CappedSum(Winner(observation), observation)

\* an observation on which the Apache rule and the later Caddy rule both
\* reach the cap was analysed, and Apache was returned
C25_Witness ==
    /\ analysis.vendor = "Apache"
    /\ analysis.confidence = 100
    /\ \E r \in RuleIds :
          /\ RULES[r].name = "Caddy"
          /\ WeightSum(r, Matching(r, observation)) >= 100

\* the captures of the matching evidence entries of rule r
Captures(r, ob) ==
    UNION { Range(check(LocationText(ob, RULES[r].evidence[k].location),
                        LocationPattern(RULES[r].evidence[k])).groups) :
              k \in Matching(r, ob) }

\* C26: whenever a matching evidence entry of the winning rule has a
\* capture group, analyze returns a version that is not null and is a
\* capture of that rule's matches on the current observation.
C26_VersionFromCapture ==
    (/\ analysis.service_type \notin {NULL, "unknown"}
     /\ Captures(Winner(observation), observation) # {}) =>
        /\ analysis.version # NULL
        /\ analysis.version \in Captures(Winner(observation), observation)

(***************************************************************************)
(* scheduler.initialize_scan on target strings, valid or not.  A target is *)
(* the fields of the string: the numbers between the dots of its address   *)
(* part and the number after the slash (-1: the field is not a number).    *)
(***************************************************************************)
Target(octets, prefix) == [octets |-> octets, prefix |-> prefix]

\* (mutant) the range of the octets is not checked
OctetsUnchecked(target) ==
    /\ Len(target.octets) = 4
    /\ target.prefix \in 0..32

\* ipaddress.ip_network(target_cidr, strict=False) returns an IPv4 network:
\* four octets of 0..255 and a prefix length of 0..32; host bits may be set
IsNetwork(target) ==
    /\ Len(target.octets) = 4
    /\ \A i \in 1..Len(target.octets) : target.octets[i] \in 0..255
    /\ target.prefix \in 0..32

\* "10.0.0.0/24", "10.0.0.7/24", "10.0.0.0/23", "10.0.0.5/32"
ValidTargets ==
    { Target(<<10, 0, 0, 0>>, 24), Target(<<10, 0, 0, 7>>, 24),
      Target(<<10, 0, 0, 0>>, 23), Target(<<10, 0, 0, 5>>, 32) }

\* "10.0.0.256/24", "10.0.0/24", "10.0.0.0.0/24", "10.0.0.0/33",
\* "10.0.0.0/x", "scan-me"
InvalidTargets ==
    { Target(<<10, 0, 0, 256>>, 24), Target(<<10, 0, 0>>, 24),
      Target(<<10, 0, 0, 0, 0>>, 24), Target(<<10, 0, 0, 0>>, 33),
      Target(<<10, 0, 0, 0>>, -1), Target(<<-1>>, -1) }

\* initialize_scan(target_cidr, priority): ValueError is caught, logged and
\* the call returns; otherwise the network is split and enqueued
InitializeScanTarget(target, priority) ==
    IF IsNetwork(target)
    THEN InitializeScan(target.prefix, priority)
    ELSE /\ op' = [name |-> "rejected", target |-> target]
         /\ UNCHANGED <<chunks, lastMaintenance, pc, cand, cur, ret, now, storeVars,
                        scanVars, mainVars, libVars, taskVars>>

NextTarget ==
    \/ \E target \in ValidTargets \cup InvalidTargets, priority \in Priorities :
          InitializeScanTarget(target, priority)
    \/ NextChunk(1)
    \/ CompleteChunk(1)

SpecTarget == Init /\ [][NextTarget]_vars

\* C30: initialize(cidr, priority) with a string that is not a valid CIDR
\* enqueues no chunk, leaves every existing chunk unchanged and raises no
\* exception: the caller stands where it stood.
C30_InvalidCidrIgnored ==
    [][ \A target \in InvalidTargets, priority \in Priorities :
          InitializeScanTarget(target, priority) => (chunks' = chunks /\ pc' = pc)
      ]_vars

\* an invalid target was rejected while chunks were in the table and the
\* engine was scanning one of them
C30_Witness ==
    /\ op.name = "rejected"
    /\ Len(chunks) > 1
    /\ pc[1] = "scanning"

(***************************************************************************)
(* Probe calls: every probe class against every outcome of the connection  *)
(* and of the reads of its dialogue.                                       *)
(***************************************************************************)
ConnectFaults == {"ConnectionRefusedError", "TimeoutError", "OSError"}

ReadFaults == {Raises("TimeoutError"), Raises("ConnectionResetError")}

ByteReadFaults == {RaisesBytes("TimeoutError"), RaisesBytes("ConnectionResetError")}

TextReads ==
    {Data(""), Data("SSH-2.0-OpenSSH_8.2\r\n"), Data("SSH-2.0-dropbear Cisco"),
     Data("login: "), Data("#\r\n")} \cup ReadFaults

\* the calls of a probe with one read: the connection fails, or it opens and
\* the read has one of the given outcomes
OneRead(ports, reads) ==
    [port : ports, connect : {"connected"}, read : reads]
      \cup [port : ports, connect : ConnectFaults, read : {CHOOSE r \in reads : TRUE}]

TCPCalls == OneRead({9999}, TextReads)

HTTPCalls ==
    OneRead({80, 443},
            {Data(""), Data("HTTP/1.1 200 OK\r\nServer: Caddy\r\n\r\n<html>"),
             Data("HTTP/1.1 403 Forbidden")} \cup ReadFaults)

SSHCalls == OneRead({22}, TextReads)

TelnetCalls == OneRead({23}, TextReads)

RTSPCalls ==
    OneRead({554},
            {Data(""), Data("RTSP/1.0 200 OK\r\nServer: Dahua Hikvision\r\n"),
             Data("RTSP/1.0 401 Unauthorized\r\nServer: AXIS"), Data("RTSP/1.0 403"),
             Data("RTSP/1.0 454")} \cup ReadFaults)

VNCCalls ==
    [port : {5900}, connect : {"connected"},
     version : {Data("RFB 003.008\n"), Data("RFB 003.00#\n"), Raises("TimeoutError")},
     sec_len : {Data(<<0>>), Data(<<2>>), Data(<<>>), RaisesBytes("TimeoutError")},
     sec_types : {Data(<<1>>), Data(<<19, 5>>), RaisesBytes("ConnectionResetError")},
     reason : {Data("Too many attempts\n"), Data("#"), Raises("ConnectionResetError")}]
      \cup [port : {5900}, connect : ConnectFaults, version : {Data("")},
            sec_len : {Data(<<>>)}, sec_types : {Data(<<>>)}, reason : {Data("")}]

FTPCalls ==
    [port : {21}, connect : {"connected"},
     greeting : {Data("220 ready\r\n"), Data(" 220-hello"), Data("421 busy\r\n"),
                 Data(""), Raises("TimeoutError")},
     user : {Data("331 password please\r\n"), Data("331 AUTH first"), Data("230 in\r\n"),
             Data("530 no"), Data("500 what"), Data("234 Auth TLS"), Data("421 bye"),
             Data(""), Raises("ConnectionResetError")},
     pass : {Data("230 ok\r\n"), Data("530 denied"), Data("421 bye"), Data("23"),
             Raises("TimeoutError")}]
      \cup [port : {21}, connect : ConnectFaults, greeting : {Data("")},
            user : {Data("")}, pass : {Data("")}]

MQTTCalls ==
    OneRead({1883},
            {Data(<<b0, 2, flags, code>>) :
               b0 \in {32, 48}, flags \in {0, 1}, code \in (0..7) \cup {255}}
            \cup {Data(<<32, 2, 0>>), Data(<<>>)} \cup ByteReadFaults)

\* probe = get_probe(port); obs = await probe.run(ip)
Probe(call) ==
    /\ probeCall' = call
    /\ probeResult' = run(call)
    /\ UNCHANGED <<now, storeVars, schedVars, scanVars, mainVars, fpVars, taskVars>>

NextProbe ==
    \/ \E call \in TCPCalls : Probe(call)
    \/ \E call \in HTTPCalls : Probe(call)
    \/ \E call \in SSHCalls : Probe(call)
    \/ \E call \in TelnetCalls : Probe(call)
    \/ \E call \in RTSPCalls : Probe(call)
    \/ \E call \in VNCCalls : Probe(call)
    \/ \E call \in FTPCalls : Probe(call)
    \/ \E call \in MQTTCalls : Probe(call)

SpecProbe == Init /\ [][NextProbe]_vars

\* C27: for every probe kind and every outcome of the connection, run(ip)
\* returns an Observation; a refused connection yields status closed, a
\* timeout yields status timeout, and any other I/O fault yields status
\* error with error_reason set.
C27_FaultStatus ==
    probeCall.port # 0 =>
       /\ probeCall.connect = "ConnectionRefusedError" => probeResult.status = "closed"
       /\ probeCall.connect = "TimeoutError" => probeResult.status = "timeout"
       /\ probeCall.connect = "OSError" =>
             (probeResult.status = "error" /\ probeResult.error_reason \notin {NULL, ""})

\* the texts of an FTP dialogue as the probe sees them
Greeting(call) == strip(decode_ignore(call.greeting.data))
UserText(call) == strip(decode_ignore(call.user.data))
PassText(call) == strip(decode_ignore(call.pass.data))

\* an FTP call on an open connection none of whose reads fails
FtpDialogue(call) ==
    /\ call.port = 21
    /\ call.connect = "connected"
    /\ call.greeting.exc = ""
    /\ startswith(Greeting(call), "220") =>
          /\ call.user.exc = ""
          /\ startswith(UserText(call), "331") => call.pass.exc = ""

\* the seven outcomes, by the reply codes
SevenOutcomes(call) ==
    LET u == UserText(call)
        p == PassText(call)
    IN IF startswith(u, "331")
       THEN IF startswith(p, "230") THEN "Anonymous Access ALLOWED"
            ELSE IF startswith(p, "530") THEN "Anonymous Access DENIED (530)"
            ELSE "Login Failed Code: " \o prefix_of(p, 3)
       ELSE IF startswith(u, "230") THEN "Anonymous Access ALLOWED (No Pass)"
       ELSE IF startswith(u, "530") THEN "Anonymous User Rejected"
       ELSE IF startswith(u, "500") \/ contains("auth", lower(u))
       THEN "Encryption Required (AUTH TLS)"
       ELSE "Handshake Error: " \o prefix_of(u, 3)

\* USER is written only after a 220 greeting, PASS only after a 331 reply
FtpCommandsInOrder ==
    /\ USER_COMMAND \in Range(probeResult.sent) <=> startswith(Greeting(probeCall), "220")
    /\ PASS_COMMAND \in Range(probeResult.sent) <=>
          (startswith(Greeting(probeCall), "220") /\ startswith(UserText(probeCall), "331"))

FixedPacket ==
    <<16, 16, 0, 4, 77, 81, 84, 84, 4, 2, 0, 60, 0, 4, 116, 101, 115, 116>>

RefusalReasons ==
    <<"Refused: Protocol Version", "Refused: ID Rejected", "Refused: Server Unavailable",
      "Refused: Bad User/Pass", "Refused: Not Authorized">>

\* a call of the MQTT probe that read a 4-byte reply beginning with 0x20
Connack(call) ==
    /\ call.port = 1883
    /\ call.connect = "connected"
    /\ call.read.exc = ""
    /\ Len(call.read.data) = 4
    /\ call.read.data[1] = 32

\* C29: for every 4-byte reply whose first byte is 0x20, the MQTT probe
\* returns status open, service mqtt and a banner determined by byte 3: 0
\* gives "Access ALLOWED (No Auth)", 1 to 5 the five refusal reasons, any
\* other n "Refused: Code n"; the CONNECT packet sent is always the fixed
\* 18-byte packet.
C29_MqttReply ==
    /\ (probeCall.port = 1883 /\ probeCall.connect = "connected") =>
          (probeResult.packet = FixedPacket /\ Len(probeResult.packet) = 18)
    /\ (probeCall.port = 1883 /\ Connack(probeCall)) =>
          LET n == probeCall.read.data[4]
          IN /\ probeResult.status = "open"
             /\ probeResult.service = "mqtt"
             /\ probeResult.banner =
                   IF n = 0 THEN "Access ALLOWED (No Auth)"
                   ELSE IF n \in 1..5 THEN RefusalReasons[n]
                   ELSE "Refused: Code " \o ToString(n)

\* a CONNACK with return code 7 and the session-present flag set
C29_Witness ==
    /\ probeCall.port = 1883
    /\ Connack(probeCall)
    /\ probeCall.read.data = <<32, 2, 1, 7>>
    /\ probeResult.banner = "Refused: Code 7"
    /\ probeResult.packet = FixedPacket

(***************************************************************************)
(* scan_chunk on several chunk ranges and port lists, saves that succeed.  *)
(***************************************************************************)
\* a range that crosses an octet boundary, a port list that names a port
\* twice, a range of one address, a single port
ScanInputs ==
    { [start_ip |-> "10.0.0.255", end_ip |-> "10.0.1.0", ports |-> <<22, 80>>],
      [start_ip |-> "10.0.0.1", end_ip |-> "10.0.0.1", ports |-> <<80, 80>>],
      [start_ip |-> "10.0.0.1", end_ip |-> "10.0.0.2", ports |-> <<443>>] }

\* main with one chunk queued, before its loop, for each of the inputs
InitTasks ==
    /\ chunksProcessed = 0
    /\ loopMode = TRUE
    /\ NoCall
    /\ EmptyStore
    /\ chunks = <<NewChunk(1, StartTime)>>
    /\ lastMaintenance = [e \in Engines |-> 0]
    /\ pc = [e \in Engines |-> "idle"]
    /\ cand = [e \in Engines |-> <<>>]
    /\ cur = [e \in Engines |-> 0]
    /\ ret = [e \in Engines |-> 0]
    /\ op = [name |-> "enqueue"]
    /\ NoScan
    /\ scanInput \in ScanInputs
    /\ now = StartTime

NextTasks ==
    \/ NextChunk(1)
    \/ ScanStart
    \/ \E w \in Workers : WorkerGet(w)
    \/ \E w \in Workers : WorkerProbe(w)
    \/ \E w \in Workers : WorkerProbeRaises(w)
    \/ \E w \in Workers : WorkerAppend(w)
    \/ \E w \in Workers : WorkerFlush(w, FALSE)
    \/ ScanJoined
    \/ ScanGathered
    \/ ScanFlush(FALSE)
    \/ ScanComplete

SpecTasks == InitTasks /\ [][NextTasks]_vars

\* the number of addresses of the range of the scan
RangeSize == ip2long(scanInput.end_ip) - ip2long(scanInput.start_ip) + 1

\* q holds, for the k-th address of the range and the j-th port of the list,
\* one task at position (k - 1) * Len(ports) + j: addresses ascend strictly
\* and the ports of one address stand in list order
InOrder(q) ==
    /\ Len(q) = RangeSize * Len(scanInput.ports)
    /\ \A k \in 1..RangeSize : \A j \in 1..Len(scanInput.ports) :
          LET item == q[(k - 1) * Len(scanInput.ports) + j]
          IN /\ ip2long(item[1]) = ip2long(scanInput.start_ip) + k - 1
             /\ item[2] = scanInput.ports[j]

\* how many tasks of q are the item
TasksFor(q, item) == Cardinality({ i \in 1..Len(q) : q[i] = item })

\* how many times the port list names the port of the item
Multiplicity(item) ==
    Cardinality({ j \in 1..Len(scanInput.ports) : scanInput.ports[j] = item[2] })

\* queue.join() has returned: every task was marked done
Joined == scanpc \in {"gather", "flush", "flushed"}

\* C31 as stated: scan_chunk creates exactly one task per (ip, port) pair of
\* the range times the ports, enqueued with ip strictly ascending and, per
\* ip, ports in configured list order; every task is taken by exactly one
\* worker and probed exactly once.
C31_OneTaskPerPair ==
    /\ [][ (scanpc = "none" /\ scanpc' = "join") =>
             (InOrder(queue') /\ \A item \in Range(queue') : TasksFor(queue', item) = 1)
         ]_vars
    /\ [](\A item \in DOMAIN taken : taken[item] <= 1 /\ probed[item] <= taken[item])
    /\ [](Joined => \A item \in DOMAIN taken : taken[item] = 1 /\ probed[item] = 1)

\* C31, amended: one task per address of the range and position of the
\* port list, in that order; a port the list names m times has m tasks per
\* address; every task is taken once and probed once.
C31_OneTaskPerPosition ==
    /\ [][ (scanpc = "none" /\ scanpc' = "join") =>
             /\ InOrder(queue')
             /\ \A item \in Range(queue') : TasksFor(queue', item) = Multiplicity(item)
             /\ unfinished' = RangeSize * Len(scanInput.ports)
         ]_vars
    /\ [](\A item \in DOMAIN taken :
             taken[item] <= Multiplicity(item) /\ probed[item] <= taken[item])
    /\ [](Joined => \A item \in DOMAIN taken :
             taken[item] = Multiplicity(item) /\ probed[item] = Multiplicity(item))

\* the scan of 10.0.0.255 .. 10.0.1.0 on ports 22, 80 has joined with its
\* four tasks taken and probed once each
C31_Witness ==
    /\ scanInput.start_ip = "10.0.0.255"
    /\ scanpc = "flushed"
    /\ DOMAIN taken = { <<"10.0.0.255", 22>>, <<"10.0.0.255", 80>>,
                        <<"10.0.1.0", 22>>, <<"10.0.1.0", 80>> }
    /\ \A item \in DOMAIN taken : taken[item] = 1 /\ probed[item] = 1

(***************************************************************************)
(* Claims about the batch buffer and its mutex, checked under SpecScan.    *)
(***************************************************************************)
\* the coroutines that are inside save_observation_batch(result_buffer)
Flushing == {w \in Workers : wpc[w] = "flush"} \cup (IF scanpc = "flush" THEN {0} ELSE {})

\* C32: the batch buffer is appended to, flushed and cleared only by a task
\* holding the buffer mutex: under every interleaving of workers no two
\* flushes overlap, no worker appends while a flush is in progress, the
\* order of observations in a flushed batch is their append order, and a
\* flush is triggered as soon as the buffer reaches the batch size.
C32_BufferUnderMutex ==
    /\ [](Cardinality(Flushing) <= 1)
    /\ [][ buffer' # buffer =>
             \/ /\ Flushing = {}
                /\ \E w \in Workers :
                      /\ wpc[w] = "append"
                      /\ buffer' = Append(buffer, ObsDict(witem[w]))
                      /\ (Len(buffer') >= BatchSize) = (wpc'[w] = "flush")
             \/ /\ \E w \in Workers : Flushing = {w} /\ wpc'[w] # "flush"
                /\ buffer' = <<>>
                /\ saveStatus' = "ok"
                /\ flushed' = flushed \cup Range(buffer)
             \/ scanpc = "none" /\ scanpc' = "join" /\ buffer' = <<>>
         ]_vars
    /\ [][ Flushing = {} /\ Flushing' # {} /\ scanpc' # "flush" =>
             Len(buffer) < Len(buffer') /\ Len(buffer') >= BatchSize ]_vars

\* a worker is inside the flush of a full buffer while the other one waits
\* for the mutex with its observation
C32_Witness ==
    /\ wpc[1] = "flush"
    /\ wpc[2] = "append"
    /\ Len(buffer) = BatchSize

\* the workers that hold a task they have not marked done
Holding == {w \in Workers : wpc[w] \in {"probe", "append", "flush"}}

\* C33: when a worker hits an exception while handling a task (in the
\* probe, the fingerprinter or a batch flush), the worker keeps running, the
\* task is marked done exactly once so that the chunk's join still
\* completes, and no observation already in the batch buffer is dropped: a
\* buffer whose flush failed is retained and included in the next flush.
C33_WorkerSurvives ==
    /\ [][ \A w \in Workers :
             ((wpc[w] = "probe" /\ wpc'[w] \notin {"probe", "append"}) \/
              (wpc[w] = "flush" /\ wpc'[w] # "flush" /\ saveStatus' # "ok")) =>
                /\ wpc'[w] = "get"
                /\ unfinished' = unfinished - 1
                /\ buffer' = buffer
                /\ produced' = produced
         ]_vars
    /\ [][ (Flushing # {} /\ saveStatus' = "ok") => flushed' = flushed \cup Range(buffer)
         ]_vars
    /\ [](scanpc = "join" => unfinished = Len(queue) + Cardinality(Holding))
    /\ [](scanpc \in {"join", "gather", "flush", "flushed"} =>
             produced \subseteq flushed \cup Range(buffer))

\* a flush of a full buffer failed, and the next flush committed that buffer
\* together with the observation appended after it
C33_Witness ==
    /\ scanpc = "join"
    /\ buffer = <<>>
    /\ Cardinality(flushed) = BatchSize + 1
    /\ produced = flushed

(***************************************************************************)
(* Claims about the periodic prune of main, checked under SpecLoop.        *)
(***************************************************************************)
\* C34: the engine invokes prune once for every PruneEvery completed
\* chunks: at the top of the iteration that follows the completion which
\* brought the count to a positive multiple, and not at the top of an
\* iteration that follows one in which no chunk completed (no chunk was
\* returned, or the scan failed).
C34_PruneOncePerPeriod ==
    [][ pc[1] = "idle" /\ pc'[1] # "idle" =>
          /\ (op.name = "complete" /\ PruneDue(chunksProcessed)) =>
                (op'.name = "prune" \/ op'.name = "raised")
          /\ op.name \in {"next_chunk", "fail"} =>
                ~(op'.name = "prune" \/ (op'.name = "raised" /\ op'.call = "prune_old_data"))
      ]_vars

(***************************************************************************)
(* One engine in one-shot mode on a seeded table, with the hand-outs of    *)
(* each chunk counted.                                                     *)
(***************************************************************************)
\* main without --loop after one initialize_scan call enqueued the chunks
InitRetry ==
    /\ chunksProcessed = 0
    /\ loopMode = FALSE
    /\ NoCall
    /\ EmptyStore
    /\ \E p \in Priorities : chunks = [c \in 1..MaxChunks |-> NewChunk(p, StartTime)]
    /\ lastMaintenance = [e \in Engines |-> 0]
    /\ pc = [e \in Engines |-> "idle"]
    /\ cand = [e \in Engines |-> <<>>]
    /\ cur = [e \in Engines |-> 0]
    /\ ret = [e \in Engines |-> 0]
    /\ op = [name |-> "enqueue"]
    /\ NoScan
    /\ scanInput = DefaultInput
    /\ now = StartTime

\* the hand-outs counted for chunk c so far
HandOuts(c) == IF c \in DOMAIN handouts THEN handouts[c] ELSE 0

\* scheduler.get_next_chunk from the main loop; the count of the chunk it
\* returns goes up, the count of a chunk its maintenance pass reset for
\* rescan starts again (the count is followed up to MAX_RETRIES + 1)
HandOut(e) ==
    /\ pc[e] = "idle"
    /\ \A c \in ChunkIds(chunks) : HandOuts(c) <= MAX_RETRIES
    /\ get_next_chunk(e)
    /\ handouts' =
          [c \in ChunkIds(chunks') |->
             (IF chunks[c].status = "COMPLETED" /\ chunks'[c].status # "COMPLETED"
              THEN 0 ELSE HandOuts(c))
               + (IF ret'[e] = c THEN 1 ELSE 0)]
    /\ UNCHANGED <<storeVars, scanVars, mainVars, libVars, scanInput, taken, probed>>

NextRetry ==
    \/ HandOut(1)
    \/ CompleteChunk(1)
    \/ \E error \in Errors : FailChunk(1, error)
    \/ \E t \in ClockInstants : Tick(t)

\* main keeps running: a due get_next_chunk call is made and every scan
\* returns or raises
SpecRetry == InitRetry /\ [][NextRetry]_vars /\ WF_vars(NextRetry)

\* C35: between being enqueued (or reset by rescan) and reaching COMPLETED
\* or FAILED, a chunk is handed out by next_chunk at most MAX_RETRIES times
\* whatever errors its scans raise; hence in one-shot mode with finitely
\* many chunks and terminating scans the engine eventually exits with every
\* handed-out chunk COMPLETED or FAILED.
C35_BoundedHandOuts ==
    /\ [](\A c \in ChunkIds(chunks) : HandOuts(c) <= MAX_RETRIES)
    /\ [](pc[1] = "exited" =>
             \A c \in ChunkIds(chunks) :
                 HandOuts(c) > 0 => chunks[c].status \in {"COMPLETED", "FAILED"})
    /\ <>(pc[1] = "exited")

(***************************************************************************)
(* What a scan that returns has saved, checked under SpecScan.             *)
(***************************************************************************)
\* a save_observation_batch call of the scan ends in this step
SaveEnds ==
    \/ \E w \in Workers : wpc[w] = "flush" /\ wpc'[w] # "flush"
    \/ scanpc = "flush" /\ scanpc' # "flush"

\* the (ip, port) items whose probe returned an observation
Returned == { it \in Range(ScanItems) : ObsDict(it) \in produced }

\* C36: when scan_chunk returns normally, every observation produced by a
\* worker for that chunk has been passed to a successful
\* save_observation_batch exactly once (none lost, none saved twice), so
\* the store holds a Service row for every (ip, port) of the chunk whose
\* probe returned, whatever its status.
C36_SavedExactlyOnce ==
    /\ [][ SaveEnds /\ saveStatus' = "ok" =>
             /\ Range(buffer) \cap flushed = {}
             /\ \A i, j \in 1..Len(buffer) : buffer[i] = buffer[j] => i = j
             /\ flushed' = flushed \cup Range(buffer) ]_vars
    /\ [](scanpc = "flushed" =>
             /\ produced = flushed
             /\ \A it \in Returned :
                   \E r \in services :
                       /\ KeyOf(r) = <<it[1], it[2], "tcp">>
                       /\ r.state = ObsDict(it).status)

\* scan_chunk is about to return: one probe raised, a worker's flush
\* raised and a later one committed, the final flush committed the rest,
\* and closed ports have their rows
C36_Witness ==
    /\ scanpc = "flushed"
    /\ Cardinality(Returned) = Len(ScanItems) - 1
    /\ buffer # <<>>
    /\ flushed = produced
    /\ \E r \in services : r.state = "closed"
    /\ \E r \in services : r.state = "open"

(***************************************************************************)
(* The chunks in status SCANNING during one engine run, checked under      *)
(* SpecLoop: the table is empty when the run starts.                       *)
(***************************************************************************)
Scanning(cs) == { c \in ChunkIds(cs) : cs[c].status = "SCANNING" }

\* C37: within one engine run that starts with no chunk in SCANNING, at
\* most one chunk is in status SCANNING in every reachable state: the
\* engine requests the next chunk only after the previous one has been
\* moved to COMPLETED or RETRYING.
C37_OneScanning ==
    /\ [](Cardinality(Scanning(chunks)) <= 1)
    /\ [](pc[1] = "scanning" => Scanning(chunks) = {cur[1]})
    /\ [][ pc[1] = "fetch" /\ pc'[1] # "fetch" => Scanning(chunks) = {} ]_vars
    /\ [][ pc[1] = "scanning" /\ pc'[1] = "idle" =>
              chunks'[cur[1]].status \in {"COMPLETED", "RETRYING"} ]_vars

\* the second chunk is being scanned after the scan of the first failed
\* and its row was moved to RETRYING
C37_Witness ==
    /\ pc[1] = "scanning"
    /\ Scanning(chunks) = {cur[1]}
    /\ \E c \in ChunkIds(chunks) : chunks[c].status = "RETRYING"
    /\ op.name = "next_chunk"

(***************************************************************************)
(* Every operation that writes scan_state, and the prune, on a table that  *)
(* comes to hold FAILED chunks.                                            *)
(***************************************************************************)
\* main, top of the loop: `await db_manager.prune_old_data()`, followed
\* here for the tables that hold a FAILED chunk
PruneAtTop(e) ==
    /\ pc[e] = "idle"
    /\ op.name # "prune"
    /\ \E c \in ChunkIds(chunks) : chunks[c].status = "FAILED"
    /\ PruneCall(DefaultHistoryDays, DefaultServiceDays)

NextFailed ==
    \/ \E p \in Priorities : EnqueueAtStart(p)
    \/ \E t \in MaintInstants : Tick(t)
    \/ NextChunk(1)
    \/ CompleteChunk(1)
    \/ FailChunk(1, "database is locked")
    \/ PruneAtTop(1)

SpecFailed == Init /\ [][NextFailed]_vars

Failed(cs) == { c \in ChunkIds(cs) : cs[c].status = "FAILED" }

\* C38: FAILED is absorbing: once a chunk is FAILED, no sequence of
\* next_chunk, complete/fail of other chunks, promotion, stale-rescan or
\* prune operations changes its status, priority or retry_count, and it is
\* never handed out again.
C38_FailedAbsorbing ==
    [][ \A c \in Failed(chunks) :
           /\ chunks'[c].status = "FAILED"
           /\ chunks'[c].priority = chunks[c].priority
           /\ chunks'[c].retry_count = chunks[c].retry_count
           /\ cur'[1] # c
           /\ op'.name = "next_chunk" => ret'[1] # c
      ]_vars

\* a next_chunk call ran its maintenance pass a week after a chunk was
\* marked FAILED with its retries used up, and the chunk is as it was
C38_Witness ==
    /\ op.name = "next_chunk"
    /\ op.maintained
    /\ \E c \in Failed(chunks) :
          /\ chunks[c].updated_at < now - StaleLowAge
          /\ chunks[c].retry_count >= MAX_RETRIES

(***************************************************************************)
(* The address ranges initialize_scan hands to create_scan_chunk.          *)
(* Addresses are the integers of ipaddress (int(IPv4Address)); the ranges  *)
(* are stored as dotted-quad text, as str(subnet[0]) and str(subnet[-1])   *)
(* give it.                                                                *)
(***************************************************************************)
\* int(ipaddress.IPv4Address(...)) of the four octets
AddressValue(octets) ==
    octets[1] * 16777216 + octets[2] * 65536 + octets[3] * 256 + octets[4]

\* (mutant) the host bits of the input are kept
HostBitsKept(target) == AddressValue(target.octets)

\* int(network[0]) of ip_network(target_cidr, strict=False): the host bits
\* of the input are masked out
network_address(target) ==
    AddressValue(target.octets)
      - (AddressValue(target.octets) % NumAddresses(target.prefix))

\* the (chunk_start, chunk_end) arguments of the create_scan_chunk calls of
\* one initialize_scan call, in call order
ChunkRanges(target) ==
    LET first == network_address(target)
        n == ChunksOf(target.prefix)
        size == IF NumAddresses(target.prefix) <= CHUNK_SIZE
                THEN NumAddresses(target.prefix)
                ELSE IF target.prefix < 24 THEN 256 ELSE NumAddresses(target.prefix)
    IN [ i \in 1..n |->
           [chunk_start |-> long2ip(first + (i - 1) * size),
            chunk_end |-> long2ip(first + i * size - 1)] ]

\* "10.0.0.0/24", "10.0.0.7/24", "10.0.1.9/23", "10.0.5.77/22",
\* "10.0.0.200/25", "10.0.3.1/31", "10.0.0.5/32", "10.1.255.255/22"
RangeTargets ==
    { Target(<<10, 0, 0, 0>>, 24), Target(<<10, 0, 0, 7>>, 24),
      Target(<<10, 0, 1, 9>>, 23), Target(<<10, 0, 5, 77>>, 22),
      Target(<<10, 0, 0, 200>>, 25), Target(<<10, 0, 3, 1>>, 31),
      Target(<<10, 0, 0, 5>>, 32), Target(<<10, 1, 255, 255>>, 22) }

\* initialize_scan(target_cidr, priority) on a valid target: the rows it
\* appends and the ranges it gives them
InitializeRanges(target, priority) ==
    /\ IsNetwork(target)
    /\ Len(chunks) + ChunksOf(target.prefix) <= MaxInitChunks
    /\ chunks' = chunks \o [i \in 1..ChunksOf(target.prefix) |-> NewChunk(priority, now)]
    /\ op' = [name |-> "create_chunks", target |-> target, priority |-> priority,
               ranges |-> ChunkRanges(target)]
    /\ UNCHANGED <<lastMaintenance, pc, cand, cur, ret, now, storeVars, scanVars,
                   mainVars, libVars, taskVars>>

NextRanges ==
    \/ \E target \in RangeTargets, priority \in Priorities :
          InitializeRanges(target, priority)
    \/ NextChunk(1)
    \/ CompleteChunk(1)

SpecRanges == Init /\ [][NextRanges]_vars

\* the addresses of an inclusive range given as dotted-quad text
AddressesOf(range) == ip2long(range.chunk_start)..ip2long(range.chunk_end)

\* the addresses that agree with the target's address in the first
\* `prefix` bits
NetworkOf(target) ==
    LET a == AddressValue(target.octets)
        size == NumAddresses(target.prefix)
    IN { b \in (a - size + 1)..(a + size - 1) : b \div size = a \div size }

\* C39: for every valid IPv4 CIDR, the chunks enqueued by one initialize
\* call are pairwise disjoint inclusive ranges of at most 256 addresses
\* whose union is exactly the address range of the network (first to last
\* address, host bits of the input ignored).
C39_ChunksPartitionNetwork ==
    /\ [](op.name = "create_chunks" =>
             /\ \A i \in 1..Len(op.ranges) :
                   /\ ip2long(op.ranges[i].chunk_start) <= ip2long(op.ranges[i].chunk_end)
                   /\ Cardinality(AddressesOf(op.ranges[i])) <= 256
             /\ \A i, j \in 1..Len(op.ranges) :
                   i # j => AddressesOf(op.ranges[i]) \cap AddressesOf(op.ranges[j]) = {}
             /\ UNION { AddressesOf(op.ranges[i]) : i \in 1..Len(op.ranges) }
                   = NetworkOf(op.target))
    /\ [][ op'.name = "create_chunks" /\ chunks' # chunks =>
              Len(chunks') = Len(chunks) + Len(op'.ranges) ]_vars

\* "10.0.5.77/22" was enqueued as the four /24 ranges of 10.0.4.0/22
C39_Witness ==
    /\ op.name = "create_chunks"
    /\ op.target = Target(<<10, 0, 5, 77>>, 22)
    /\ Len(op.ranges) = 4
    /\ op.ranges[1].chunk_start = "10.0.4.0"
    /\ op.ranges[4].chunk_end = "10.0.7.255"

(***************************************************************************)
(* analyze and the groups its rules keep, checked under SpecAnalyze.       *)
(***************************************************************************)
\* what the rules may hold in last_groups when analyze is called: nothing,
\* or the capture of an earlier match
StaleGroups ==
    { [r \in RuleIds |-> <<>>], [r \in RuleIds |-> <<"2.4.41">>],
      [r \in RuleIds |-> <<"8.2p1">>] }

\* C40: analyze is a function of its argument alone: for every
\* observation, the returned service_type, vendor, product, version, tags
\* and confidence are the same regardless of which observations were
\* analysed before it, even though each rule object keeps its last matched
\* groups between calls.
C40_AnalyzeIsFunction ==
    [][ \A g \in StaleGroups \cup {lastGroups} :
           analysis' = analyze(observation', g).result ]_vars

\* "Apache" was analysed and no version returned while another rule still
\* holds the capture of an earlier call
C40_Witness ==
    /\ observation.banner = <<"Apache">>
    /\ observation.server = <<>>
    /\ analysis.vendor = "Apache"
    /\ analysis.version = NULL
    /\ \E r \in RuleIds : lastGroups[r] # <<>>
====
